---- MODULE Spec2Model ----
(***************************************************************************)
(* Model of the remote-desk session core: the session state machine        *)
(* (src/session/state.rs), the host and client sessions with their         *)
(* workers (src/session/host.rs, src/session/client.rs) and the frames     *)
(* channel of the session transport (src/session/transport.rs).            *)
(***************************************************************************)
EXTENDS Integers, Sequences, FiniteSets, TLC

\* ------------------------------------------------------------------------
\* Bounds of the model
\* ------------------------------------------------------------------------
\* largest max_history handed to with_max_history
MaxCustomHistory == 2
\* number of frames the capturer can deliver in one run
MaxSeq == 5
\* number of pause() calls tried in one run
MaxPauses == 1
\* number of frames the video substream holds in flight
StreamWindow == 1
\* longest run of capture errors while the capturer still has frames to give
MaxTransientFailures == 1
\* events an input producer offers
MaxInputs == 34
\* connections clients of any make open to the listener
MaxInbound == 2
\* connections peers open to a manager that also dials
MaxPeerInbound == 1
\* connect() calls made on the manager
MaxDials == 2
\* disconnect() calls made on the manager
MaxDisconnects == 2
\* decode calls made on one FrameDecoder between two reset_stats
MaxDecodes == 4
\* largest sequence number of a frame handed to a decoder or a viewer
MaxFrameSequence == 3
\* frames sent to one ViewerWindow
MaxArrivals == 3
\* send() calls made on one StreamSender
MaxSends == 3
\* messages a substream holds between its writer and its reader
MaxInFlight == 2
\* messages put on the outgoing queue of a bridge, or written by a peer
MaxPut == 3
\* start_discovery() calls made on one PeerDiscovery
MaxStarts == 3
\* services the mDNS daemon resolves
MaxResolved == 2
\* the latest instant the clock of a peer cache reaches, in seconds
MaxNow == 182
\* calls of create_*_session made on one SessionManager
MaxCreates == 2
\* how far from DEVICE_ID_MIN and from DEVICE_ID_MAX the numbers made into
\* device ids lie
MaxOffset == 9
\* accept_connection and reject_connection calls made side by side
MaxAnswers == 3
\* times the system clipboard is written, by the local user or by set_content
MaxCopies == 2

\* ------------------------------------------------------------------------
\* Program constants
\* ------------------------------------------------------------------------
FRAME_CHANNEL_BUFFER == 4
DEFAULT_MAX_HISTORY == 100
MAX_FAILURES == 10
DEFAULT_CHANNEL_BUFFER == 32
CURRENT_PROTOCOL_VERSION == 1
DEVICE_ID_MIN == 100000000
DEVICE_ID_MAX == 999999999
DEFAULT_MAX_CONNECTIONS == 5
MAX_CONSECUTIVE_FAILURES == 10
CAPTURE_CHANNEL_CAPACITY == 10
STALE_PEER_TIMEOUT_SECS == 120
MAX_MESSAGE_SIZE == 10485760
LENGTH_PREFIX_SIZE == 4

\* ------------------------------------------------------------------------
\* SessionState and the transition table
\* ------------------------------------------------------------------------
Idle == "Idle"
Connecting == "Connecting"
Authenticating == "Authenticating"
Active == "Active"
Paused == "Paused"
Disconnecting == "Disconnecting"
Disconnected == "Disconnected"

SessionState ==
    {Idle, Connecting, Authenticating, Active, Paused, Disconnecting, Disconnected}

\* the table with an edge from Disconnected back to Connecting
valid_transitions_restart(s) ==
    CASE s = Idle           -> {Connecting, Disconnected}
      [] s = Connecting     -> {Authenticating, Disconnecting, Disconnected}
      [] s = Authenticating -> {Active, Disconnecting, Disconnected}
      [] s = Active         -> {Paused, Disconnecting, Disconnected}
      [] s = Paused         -> {Active, Disconnecting, Disconnected}
      [] s = Disconnecting  -> {Disconnected}
      [] s = Disconnected   -> {Connecting}

valid_transitions(s) ==
    CASE s = Idle           -> {Connecting, Disconnected}
      [] s = Connecting     -> {Authenticating, Disconnecting, Disconnected}
      [] s = Authenticating -> {Active, Disconnecting, Disconnected}
      [] s = Active         -> {Paused, Disconnecting, Disconnected}
      [] s = Paused         -> {Active, Disconnecting, Disconnected}
      [] s = Disconnecting  -> {Disconnected}
      [] s = Disconnected   -> {}

\* StateTransition{from, to}; the timestamp is not modelled
StateTransition(a, b) == [from |-> a, to |-> b]

\* SessionStateMachine::with_max_history / new
with_max_history(n) == [current |-> Idle, history |-> <<>>, max_history |-> n]

new == with_max_history(DEFAULT_MAX_HISTORY)

can_transition(m, to) == to \in valid_transitions(m.current)

\* history.push(transition) without the trimming
push_history_untrimmed(h, t, max) == Append(h, t)

\* history.push(transition); if history.len() > max_history { history.remove(0) }
push_history(h, t, max) ==
    LET pushed == Append(h, t)
    IN  IF Len(pushed) > max THEN Tail(pushed) ELSE pushed

Ok == [ok |-> TRUE]

InvalidStateTransition(a, b) == [ok |-> FALSE, from |-> a, to |-> b]

\* SessionStateMachine::force_transition: the machine after the call
force_transition(m, to) ==
    [m EXCEPT !.current = to,
              !.history = push_history(m.history, StateTransition(m.current, to),
                                       m.max_history)]

\* transition without the can_transition check
transition_unchecked(m, to) ==
    [m |-> force_transition(m, to), res |-> Ok,
     took |-> <<StateTransition(m.current, to)>>]

\* SessionStateMachine::transition: the machine after the call, the result,
\* and the edges the call has taken
transition(m, to) ==
    IF ~can_transition(m, to)
    THEN [m |-> m, res |-> InvalidStateTransition(m.current, to), took |-> <<>>]
    ELSE [m |-> force_transition(m, to), res |-> Ok,
          took |-> <<StateTransition(m.current, to)>>]

\* SessionStateMachine::reset
reset(m) == [m EXCEPT !.current = Idle, !.history = <<>>]

\* ------------------------------------------------------------------------
\* State
\* ------------------------------------------------------------------------
VARIABLES
    mode,           \* the object under construction: "machine", "host", "client"
    sm,             \* the SessionStateMachine (the session's `state` field)
    call,           \* the last public call: its name and argument, the state
                    \* it found, its result and the edges it took
    is_running,     \* the session's is_running flag
    wpc,            \* position of every worker spawned by start()
    frame_sequence, \* the host's frame sequence counter
    cap,            \* locals of the capture worker: the frame in hand and
                    \* consecutive_failures
    stats,          \* HostSessionStats: frames_sent, frames_dropped
    frames,         \* the frames channel: queued sequence numbers, and whether
                    \* the receiving half is still alive
    transport,      \* how the session transport was built: "loopback", "quic"
    bridge,         \* the two video bridge tasks of a networked transport:
                    \* position and message in hand of each
    stream,         \* the video substream: frames in flight, and whether the
                    \* connection still carries it
    frames_in,      \* the client-side frames channel of a networked transport
    received,       \* sequence numbers taken from the client's frames.rx
    input,          \* the input channel of a loopback transport, the client's
                    \* input_sequence counter, and what became of every event
    inbound,        \* the connections the listener accepted, by connection_id
    incoming,       \* the listener's incoming channel (incoming_tx/incoming_rx)
    manager,        \* the ConnectionManager: config, connections,
                    \* pending_connections and the events it emitted
    dials,          \* the connect() calls made on the manager
    established,    \* the EstablishedConnections the manager returned
    decoder,        \* a FrameDecoder: expected_sequence, stats, last_frame
    viewer,         \* a ViewerWindow: its frames queue, texture and stats
    link,           \* one substream with the tasks and queues at its two ends
    discovery,      \* a PeerDiscovery, the mDNS daemon and the browse tasks
    registry,       \* a SessionManager: its sessions and the calls made on it
    answers,        \* the accept_connection and reject_connection calls that
                    \* callers of the ConnectionManager make side by side
    clipboard,      \* a ClipboardMonitor, the system clipboard it watches and
                    \* its polling thread
    capturer,       \* a ScreenCapturer, its capture thread and frame channel
    ident           \* a number, the DeviceId made of it and its written forms

vars == <<mode, sm, call, is_running, wpc, frame_sequence, cap, stats, frames,
          transport, bridge, stream, frames_in, received,
          input, inbound, incoming, manager, dials, established,
          decoder, viewer, link, discovery,
          registry, answers, clipboard, capturer, ident>>

\* the session manager, the callers answering pending connections, the
\* clipboard monitor, the screen capturer and a device id on its own
aside == <<registry, answers, clipboard, capturer, ident>>

\* the decoder, the viewer, a substream, peer discovery: what stands apart
\* from a session and from a manager
apart == <<decoder, viewer, link, discovery, aside>>

\* what lives outside a session: the input channel and the connection manager
outside_session == <<input, inbound, incoming, manager, dials, established, apart>>

net_vars == <<transport, bridge, stream, frames_in>>

session_vars == <<is_running, wpc, frame_sequence, cap, stats, frames, net_vars, received>>

NoArg == "-"

NoCall == [op |-> "none", arg |-> NoArg, from |-> Idle, res |-> Ok, took |-> <<>>]

Called(op, arg, from, res, took) ==
    [op |-> op, arg |-> arg, from |-> from, res |-> res, took |-> took]

Workers == {"capture", "input", "control", "frame_receiver"}

\* the workers start() spawns: host.rs 191-193, client.rs 179-180
Spawned(m) ==
    CASE m = "host"   -> {"capture", "input", "control"}
      [] m = "client" -> {"frame_receiver", "control"}
      [] OTHER        -> {}

NoFrame == -1

\* mpsc::channel(FRAME_CHANNEL_BUFFER): an empty queue with both halves alive
channel == [queue |-> <<>>, rx_open |-> TRUE]

\* dropping the receiving half discards what is queued and closes the channel
rx_dropped == [queue |-> <<>>, rx_open |-> FALSE]

\* mpsc::channel(DEFAULT_CHANNEL_BUFFER) between client_transport.input.tx and
\* host_transport.input.rx, with the sender's input_sequence at 0; `sent`,
\* `discarded` and `received` record what became of every event
input_channel ==
    [queue |-> <<>>, rx_open |-> TRUE, input_sequence |-> 0,
     sent |-> <<>>, discarded |-> <<>>, received |-> <<>>,
     input_events_sent |-> 0]

\* ManagerConfig: max_connections, and whether the password hash file exists
ManagerConfig(max, password_set) ==
    [max_connections |-> max, password_set |-> password_set]

\* ManagerConfig::new: max_connections is 5; the file is whatever is on disk
ManagerConfig_new(password_set) == ManagerConfig(DEFAULT_MAX_CONNECTIONS, password_set)

\* ConnectionManager::new followed by start(): no connection, nothing pending,
\* no event, the listener's connection_counter at 0
ConnectionManager_new(config) ==
    [config |-> config,
     connections |-> [d \in {} |-> 0],
     pending_connections |-> {},
     events |-> <<>>,
     connection_counter |-> 0]

\* ------------------------------------------------------------------------
\* FrameDecoder (desktop/decoder.rs) and ViewerWindow (ui/viewer.rs)
\* ------------------------------------------------------------------------
FrameFormats == {"Raw", "Jpeg", "Png", "WebP"}

\* what a frame's data holds: raw RGBA pixels, a well-formed encoded image,
\* or bytes that are no image
Payloads == {"pixels", "image", "junk"}

EncodedFrame(sequence, format, data) ==
    [sequence |-> sequence, format |-> format, data |-> data]

TransportFrame(sequence, format, data) ==
    [sequence |-> sequence, format |-> format, data |-> data]

\* the frames a host's encoder produces, and one damaged on the way
FrameKinds == {<<"Raw", "pixels">>, <<"Jpeg", "image">>, <<"Jpeg", "junk">>}

\* bytes_received, bytes_decoded and avg_decode_time_ms are left out: nothing
\* reads them back
DecoderStats_default ==
    [frames_decoded |-> 0, frames_dropped |-> 0,
     last_sequence |-> 0, out_of_order_frames |-> 0]

\* `seen` records every frame handed to the decoder since the last
\* reset_stats, with the result its caller got
FrameDecoder_new ==
    [last_frame |-> NoFrame,
     expected_sequence |-> 1,
     stats |-> DecoderStats_default,
     seen |-> <<>>]

\* Raw data is taken as it is; every other format goes through the image
\* reader, WebP included ("attempt as JPEG")
decode_internal(encoded) ==
    IF encoded.format = "Raw" THEN TRUE ELSE encoded.data = "image"

\* counts every frame that is not the expected one
update_stats_any_gap(d, encoded, result_is_ok) ==
    IF result_is_ok
    THEN [d EXCEPT
            !.stats.frames_decoded = @ + 1,
            !.stats.out_of_order_frames =
                IF encoded.sequence # d.expected_sequence THEN @ + 1 ELSE @,
            !.stats.last_sequence = encoded.sequence,
            !.expected_sequence = encoded.sequence + 1]
    ELSE [d EXCEPT !.stats.frames_dropped = @ + 1]

update_stats(d, encoded, result_is_ok) ==
    IF result_is_ok
    THEN [d EXCEPT
            !.stats.frames_decoded = @ + 1,
            !.stats.out_of_order_frames =
                IF encoded.sequence # d.expected_sequence /\ encoded.sequence # 0
                THEN @ + 1 ELSE @,
            !.stats.last_sequence = encoded.sequence,
            !.expected_sequence = encoded.sequence + 1]
    ELSE [d EXCEPT !.stats.frames_dropped = @ + 1]

\* decode: the Result goes back to the caller as it is
decode(d, encoded) ==
    LET result == decode_internal(encoded)
        stored == [d EXCEPT
                     !.last_frame = IF result THEN encoded.sequence ELSE @,
                     !.seen = Append(@, [sequence |-> encoded.sequence,
                                         ok |-> result,
                                         error |-> IF result THEN "None"
                                                   ELSE "RemoteDeskError"])]
    IN update_stats(stored, encoded, result)

\* decode_transport: the same on a copy of the frame's fields, with the
\* error turned into a SessionError
decode_transport(d, transport_frame) ==
    LET decoded == decode(d, EncodedFrame(transport_frame.sequence,
                                          transport_frame.format,
                                          transport_frame.data))
        last == Len(decoded.seen)
    IN [decoded EXCEPT
          !.seen[last].error = IF @ = "None" THEN @ ELSE "FrameDecodeError"]

reset_stats(d) ==
    [d EXCEPT !.stats = DecoderStats_default, !.expected_sequence = 1, !.seen = <<>>]

\* ViewerStats without the fps and latency readings
ViewerStats_default ==
    [frames_received |-> 0, frames_displayed |-> 0, frames_dropped |-> 0]

\* frame_rx is the queue behind the viewer's receiver; texture is the
\* sequence number of the frame on display; `arrived` counts the frames
\* ever sent to the viewer
ViewerWindow_new ==
    [frame_rx |-> <<>>, texture |-> NoFrame, stats |-> ViewerStats_default,
     arrived |-> 0]

\* the oldest frame of a drain
oldest_frame(drained) == drained[1]

\* `while let Ok(frame) = rx.try_recv() { latest_frame = Some(frame) }`
latest_frame(drained) == drained[Len(drained)]

\* ------------------------------------------------------------------------
\* One QUIC substream with its typed adapters (network/stream.rs) and the
\* bridge tasks of a networked transport (session/transport.rs)
\* ------------------------------------------------------------------------
\* a value of the substream's type whose serialization takes `size` bytes
Blob(body, size) == [type |-> "Blob", body |-> body, size |-> size]

\* Message::new(MessageType::Heartbeat, MessagePayload::Heartbeat(..))
HeartbeatMessage(timestamp) == [type |-> "Heartbeat", timestamp |-> timestamp]

\* bytes whose enum tag names no variant of MessagePayload this build has
UnknownVariant == [type |-> "UnknownVariant"]

\* the payloads a protocol Message can carry
MessagePayloads ==
    {"ConnectionRequest", "ConnectionAccept", "ConnectionReject", "Disconnect",
     "Heartbeat", "Error", "ScreenFrame", "KeyboardEvent", "MouseEvent"}

Ping(timestamp_ms) == [type |-> "Ping", timestamp_ms |-> timestamp_ms]

Pong(original_timestamp_ms) ==
    [type |-> "Pong", original_timestamp_ms |-> original_timestamp_ms]

SetQuality(quality) == [type |-> "SetQuality", quality |-> quality]

NoValue == [type |-> "NoValue"]

StreamError(kind) == [kind |-> kind, size |-> 0, max |-> 0]

MessageTooLarge(size, max) == [kind |-> "MessageTooLarge", size |-> size, max |-> max]

NoError == StreamError("None")

StreamOk(value) == [ok |-> TRUE, value |-> value, error |-> NoError]

StreamErr(error) == [ok |-> FALSE, value |-> NoValue, error |-> error]

\* bincode::serialize: as many bytes as the value takes; a protocol Message
\* takes a few
serialize(msg) ==
    [len |-> IF msg.type = "Blob" THEN msg.size ELSE LENGTH_PREFIX_SIZE * 4,
     value |-> msg]

\* bincode::deserialize into the substream's type: a Blob on a typed
\* substream, a Message with a known payload on the control substream
deserialize(data, kind) ==
    IF \/ kind = "typed" /\ data.value.type = "Blob"
       \/ kind = "control" /\ data.value.type \in MessagePayloads
    THEN StreamOk(data.value)
    ELSE StreamErr(StreamError("Deserialization"))

\* (size as u32).to_be_bytes(); every size handed to it is far below 2^32,
\* so the cast keeps the value
to_be_bytes(size) ==
    <<size \div 16777216, (size \div 65536) % 256, (size \div 256) % 256, size % 256>>

\* u32::from_le_bytes
from_le_bytes(len_bytes) ==
    len_bytes[4] * 16777216 + len_bytes[3] * 65536 + len_bytes[2] * 256 + len_bytes[1]

\* u32::from_be_bytes
from_be_bytes(len_bytes) ==
    len_bytes[1] * 16777216 + len_bytes[2] * 65536 + len_bytes[3] * 256 + len_bytes[4]

\* what one write_all puts on the substream: the length prefix, or the data
LengthSegment(len_bytes) == [kind |-> "length", bytes |-> len_bytes, data |-> NoValue]

DataSegment(data) == [kind |-> "data", bytes |-> <<>>, data |-> data]

\* a substream: what was written and not yet read, and whether it is open,
\* finished by its writer, or lost with the connection
substream == [segments |-> <<>>, state |-> "open"]

\* StreamSender::send without the size check
StreamSender_send_unchecked(s, msg) ==
    LET data == serialize(msg)
        size == data.len
    IN IF s.state # "open"
       THEN [stream |-> s, result |-> StreamErr(StreamError("WriteError"))]
       ELSE [stream |-> [s EXCEPT !.segments =
                           @ \o <<LengthSegment(to_be_bytes(size)), DataSegment(data)>>],
             result |-> StreamOk(size + LENGTH_PREFIX_SIZE)]

\* StreamSender::send: serialize, refuse what is over MAX_MESSAGE_SIZE, then
\* write the length prefix and the data; a write on a substream that is no
\* longer open fails
StreamSender_send(s, msg) ==
    LET data == serialize(msg)
        size == data.len
    IN IF size > MAX_MESSAGE_SIZE
       THEN [stream |-> s, result |-> StreamErr(MessageTooLarge(size, MAX_MESSAGE_SIZE))]
       ELSE IF s.state # "open"
       THEN [stream |-> s, result |-> StreamErr(StreamError("WriteError"))]
       ELSE [stream |-> [s EXCEPT !.segments =
                           @ \o <<LengthSegment(to_be_bytes(size)), DataSegment(data)>>],
             result |-> StreamOk(size + LENGTH_PREFIX_SIZE)]

\* recv() returns when a whole message can be read, or the substream ended
can_recv(s) ==
    \/ s.state # "open"
    \/ /\ s.segments # <<>>
       /\ \/ s.segments[1].kind # "length"
          \/ from_be_bytes(s.segments[1].bytes) > MAX_MESSAGE_SIZE
          \/ Len(s.segments) >= 2

\* StreamReceiver::recv: read_length, the size check, read_exact(len), then
\* deserialize
StreamReceiver_recv(s, kind) ==
    IF s.state = "lost"
    THEN [stream |-> s, result |-> StreamErr(StreamError("ReadError"))]
    ELSE IF s.segments = <<>>
    THEN [stream |-> s, result |-> StreamErr(StreamError("StreamClosed"))]
    ELSE IF s.segments[1].kind # "length"
    THEN [stream |-> [s EXCEPT !.segments = Tail(@)],
          result |-> StreamErr(StreamError("Deserialization"))]
    ELSE LET len == from_be_bytes(s.segments[1].bytes)
         IN IF len > MAX_MESSAGE_SIZE
            THEN [stream |-> [s EXCEPT !.segments = Tail(@)],
                  result |-> StreamErr(MessageTooLarge(len, MAX_MESSAGE_SIZE))]
            ELSE IF Len(s.segments) < 2
            THEN [stream |-> [s EXCEPT !.segments = Tail(@)],
                  result |-> StreamErr(StreamError("StreamClosed"))]
            ELSE [stream |-> [s EXCEPT !.segments = Tail(Tail(@))],
                  result |-> IF /\ s.segments[2].kind = "data"
                                /\ s.segments[2].data.len = len
                             THEN deserialize(s.segments[2].data, kind)
                             ELSE StreamErr(StreamError("Deserialization"))]

\* spawn_control_sender: Ping and Pong both go out as a Heartbeat, every
\* other ControlMessage is skipped; spawn_channel_to_stream: as it is
outgoing(kind, msg) ==
    IF kind = "typed" THEN [skip |-> FALSE, msg |-> msg]
    ELSE CASE msg.type = "Ping" ->
                [skip |-> FALSE, msg |-> HeartbeatMessage(msg.timestamp_ms)]
           [] msg.type = "Pong" ->
                [skip |-> FALSE, msg |-> HeartbeatMessage(msg.original_timestamp_ms)]
           [] OTHER -> [skip |-> TRUE, msg |-> NoValue]

\* spawn_control_receiver: a Heartbeat comes in as a Ping, every other
\* payload is skipped; spawn_stream_to_channel: as it is
arriving(kind, msg) ==
    IF kind = "typed" THEN [skip |-> FALSE, msg |-> msg]
    ELSE IF msg.type = "Heartbeat"
         THEN [skip |-> FALSE, msg |-> Ping(msg.timestamp)]
         ELSE [skip |-> TRUE, msg |-> NoValue]

\* an mpsc channel with both halves tracked
queue_pair == [queue |-> <<>>, tx_open |-> TRUE, rx_open |-> TRUE]

\* the task ends and keeps its Sender
keep_sender(ch) == ch

\* the task ends: the Sender it owns is dropped with it
drop_sender(ch) == [ch EXCEPT !.tx_open = FALSE]

\* a substream of the given kind ("typed" or "control") whose far end is this
\* program ("program") or a peer of any make ("any"), with the sending bridge
\* of the far end, the receiving bridge of the near end and their queues.
\* `put`, `sent`, `results`, `forwarded` and `delivered` record what the
\* session put on the outgoing queue, every send() and recv() with its
\* result, what the receiving bridge queued and what the session took
SubstreamLink(kind, peer, pc) ==
    [kind |-> kind, peer |-> peer,
     out |-> queue_pair, sender_pc |-> pc, sender_hand |-> NoValue,
     stream |-> substream,
     receiver_pc |-> pc, receiver_hand |-> NoValue, receiver_error |-> NoError,
     into |-> queue_pair,
     put |-> <<>>, sent |-> <<>>, results |-> <<>>, forwarded |-> <<>>,
     delivered |-> <<>>, closed_seen |-> FALSE]

\* a substream nobody opened
SubstreamLink_new == SubstreamLink("none", "none", "unspawned")

\* ------------------------------------------------------------------------
\* PeerDiscovery (network/discovery.rs)
\* ------------------------------------------------------------------------
\* a PeerDiscovery nobody started. event_tx and browser_handle are Options:
\* 0 is None, k > 0 names the k-th event channel or browse task created.
\* `tasks` are the discovery_loop tasks ever spawned, each with the mDNS
\* receiver it reads (its inbox, and whether the daemon still holds the
\* other end) and the event channel it feeds; `streams` are the event
\* channels ever created, each with the events sent on it, the number of
\* Senders alive and whether its Receiver is held; `fed` are the tasks whose
\* receiver the daemon feeds. `peers` maps a device id to its PeerInfo.
\* `now` is the monotonic clock Instant::now() reads, in seconds; `handled`
\* are the device ids of the browse results handle_service_event was given;
\* `swept` tells whether cleanup_stale_peers() was the last thing to happen
\* to the cache and which peers it removed; `dialed` holds what the last
\* connect() resolved and the address it went on to dial
PeerDiscovery_new ==
    [mdns |-> FALSE, event_tx |-> 0, browser_handle |-> 0, peers |-> << >>,
     tasks |-> <<>>, streams |-> <<>>, fed |-> {},
     starts |-> 0, resolved |-> 0,
     now |-> 0, handled |-> {}, swept |-> [done |-> FALSE, removed |-> {}],
     dialed |-> <<>>]

\* SocketAddr: an IPv4 or an IPv6 address with a port
SocketAddr(family, host) == [family |-> family, host |-> host]

is_ipv4(addr) == addr.family = "V4"

\* PeerInfo::new: last_seen is the clock at construction
PeerInfo_new(device_id, addresses, now) ==
    [device_id |-> device_id, addresses |-> addresses, last_seen |-> now]

\* PeerInfo::age: last_seen.elapsed()
age(peer, now) == now - peer.last_seen

\* the first address of a list, `addresses.first()` / `into_iter().next()`
first_address(addresses) ==
    IF addresses = <<>> THEN [some |-> FALSE] ELSE [some |-> TRUE, addr |-> addresses[1]]

\* iter().find(|addr| addr.is_ipv4())
find_ipv4(addresses) ==
    IF \E i \in DOMAIN addresses : is_ipv4(addresses[i])
    THEN [some |-> TRUE,
          addr |-> addresses[CHOOSE i \in DOMAIN addresses :
                       /\ is_ipv4(addresses[i])
                       /\ \A j \in 1..(i - 1) : ~is_ipv4(addresses[j])]]
    ELSE [some |-> FALSE]

\* PeerInfo::primary_address: the first IPv4 address, or else the first
primary_address(peer) ==
    IF find_ipv4(peer.addresses).some THEN find_ipv4(peer.addresses)
    ELSE first_address(peer.addresses)

PeerEvent_Discovered(device_id) == [event |-> "Discovered", device_id |-> device_id]

PeerEvent_Updated(device_id) == [event |-> "Updated", device_id |-> device_id]

PeerEvent_Lost(device_id) == [event |-> "Lost", device_id |-> device_id]

\* ------------------------------------------------------------------------
\* SessionManager (session/manager.rs)
\* ------------------------------------------------------------------------
\* SessionManager::new: no sessions. `calls` are the create calls made on it
SessionManager_new == [sessions |-> << >>, calls |-> <<>>]

\* ------------------------------------------------------------------------
\* ClipboardMonitor (clipboard/sync.rs)
\* ------------------------------------------------------------------------
\* the texts that get copied
Texts == {"alpha", "beta"}

\* ClipboardContent::compute_hash, DefaultHasher over the bytes: equal data
\* give equal hashes, and these two texts differ in theirs
compute_hash(data) == IF data = "alpha" THEN 11 ELSE IF data = "beta" THEN 22 ELSE 33

\* ClipboardContent::text(text); `from` tells who put the text on the system
\* clipboard, the local user or set_content
ClipboardContent_text(text, from) ==
    [data |-> text, hash |-> compute_hash(text), from |-> from]

\* a TransportClipboard a peer running this program makes of a text it
\* copied (to_transport), and ClipboardContent::from_transport of it: the
\* hash is the one the message carries
from_transport(message) ==
    [data |-> message.data, hash |-> message.content_hash, from |-> "remote"]

NoText == [data |-> "", hash |-> 0, from |-> "nobody"]

\* ClipboardMonitor::new, next to the system clipboard (empty), the polling
\* thread (its position, the content and the hash it holds), the receiver
\* start_monitoring returned and what was sent to it, and the set_content
\* call in progress
ClipboardMonitor_new ==
    [last_hash |-> 0, is_running |-> FALSE,
     system |-> NoText, copies |-> 0,
     thread |-> [pc |-> "unspawned", content |-> NoText],
     rx_open |-> TRUE, reported |-> <<>>,
     setting |-> NoText]

\* ------------------------------------------------------------------------
\* ScreenCapturer (desktop/capture.rs)
\* ------------------------------------------------------------------------
\* ScreenCapturer::new, next to the capture thread start_capture spawns (its
\* position, the is_running flag the thread was given and its
\* consecutive_failures), the frames queued in the channel, whether the
\* Receiver start_capture returned is still held, and whether stop_capture
\* has been called
ScreenCapturer_new ==
    [is_running |-> FALSE,
     thread |-> [pc |-> "unspawned", is_running |-> FALSE, consecutive_failures |-> 0],
     queued |-> 0, rx_open |-> TRUE, stopped |-> FALSE]

\* ------------------------------------------------------------------------
\* DeviceId (security/id.rs)
\* ------------------------------------------------------------------------
NoDeviceId == [n |-> 0]

AsideIdle ==
    /\ registry = SessionManager_new
    /\ answers = <<>>
    /\ clipboard = ClipboardMonitor_new
    /\ capturer = ScreenCapturer_new
    /\ ident = NoDeviceId

ApartIdle ==
    /\ decoder = FrameDecoder_new
    /\ viewer = ViewerWindow_new
    /\ link = SubstreamLink_new
    /\ discovery = PeerDiscovery_new
    /\ AsideIdle

\* no input channel in use and no connection manager traffic
OutsideIdle ==
    /\ input = input_channel
    /\ inbound = <<>>
    /\ incoming = <<>>
    /\ manager = ConnectionManager_new(ManagerConfig_new(FALSE))
    /\ dials = <<>>
    /\ established = <<>>
    /\ ApartIdle

Init ==
    /\ mode \in {"machine", "host", "client"}
    /\ sm \in IF mode = "machine"
              THEN {with_max_history(n) : n \in 0..MaxCustomHistory}
              ELSE {new}
    /\ call = NoCall
    /\ is_running = FALSE
    /\ wpc = [w \in Workers |-> "unspawned"]
    /\ frame_sequence = 0
    /\ cap = [hand |-> NoFrame, consecutive_failures |-> 0]
    /\ stats = [frames_sent |-> 0, frames_dropped |-> 0]
    /\ frames = channel
    /\ transport = "loopback"
    /\ bridge = [out_pc |-> IF transport = "quic" THEN "recv" ELSE "unspawned",
                 in_pc |-> IF transport = "quic" THEN "recv" ELSE "unspawned",
                 out_hand |-> NoFrame, in_hand |-> NoFrame]
    /\ stream = [data |-> <<>>, open |-> TRUE]
    /\ frames_in = channel
    /\ received = <<>>
    /\ OutsideIdle

\* ------------------------------------------------------------------------
\* A bare SessionStateMachine driven through its public API
\* ------------------------------------------------------------------------
CallTransition ==
    /\ mode = "machine"
    /\ \E to \in SessionState :
         LET r == transition(sm, to)
         IN  /\ sm' = r.m
             /\ call' = Called("transition", to, sm.current, r.res, r.took)
    /\ UNCHANGED <<mode, outside_session, session_vars>>

CallForceTransition ==
    /\ mode = "machine"
    /\ \E to \in SessionState :
         /\ sm' = force_transition(sm, to)
         /\ call' = Called("force_transition", to, sm.current, Ok,
                           <<StateTransition(sm.current, to)>>)
    /\ UNCHANGED <<mode, outside_session, session_vars>>

CallReset ==
    /\ mode = "machine"
    /\ sm' = reset(sm)
    /\ call' = Called("reset", NoArg, sm.current, Ok, <<>>)
    /\ UNCHANGED <<mode, outside_session, session_vars>>

\* ------------------------------------------------------------------------
\* HostSession / ClientSession: start, stop, pause, resume
\* ------------------------------------------------------------------------
\* start() that goes from Connecting straight to Active
start_path_skip_auth(m) ==
    LET r1 == transition(m, Connecting)
    IN  IF ~r1.res.ok THEN r1
        ELSE [m |-> force_transition(r1.m, Active), res |-> Ok,
              took |-> r1.took \o <<StateTransition(r1.m.current, Active)>>]

\* the `?` chain of start(): the first failing transition returns its error
\* and leaves the machine as the earlier transitions made it
start_path(m) ==
    LET r1 == transition(m, Connecting)
        r2 == transition(r1.m, Authenticating)
        r3 == transition(r2.m, Active)
    IN  IF ~r1.res.ok THEN r1
        ELSE IF ~r2.res.ok THEN [r2 EXCEPT !.took = r1.took \o r2.took]
        ELSE [r3 EXCEPT !.took = r1.took \o r2.took \o r3.took]

start ==
    /\ mode \in {"host", "client"}
    /\ LET r == start_path(sm)
       IN  /\ sm' = r.m
           /\ call' = Called("start", NoArg, sm.current, r.res, r.took)
           /\ IF r.res.ok
              THEN /\ is_running' = TRUE
                   /\ wpc' = [w \in Workers |->
                                IF w \in Spawned(mode)
                                THEN (IF w = "capture" THEN "init" ELSE "loop")
                                ELSE wpc[w]]
              ELSE UNCHANGED <<is_running, wpc>>
    /\ UNCHANGED <<mode, outside_session, frame_sequence, cap, stats, frames, net_vars, received>>

\* stop() that forces Disconnected without trying Disconnecting
stop_path_direct(m) ==
    [m |-> force_transition(m, Disconnected), res |-> Ok,
     took |-> <<StateTransition(m.current, Disconnected)>>]

\* the write-locked block of stop(): Disconnecting when the table allows it,
\* then Disconnected by force
stop_path(m) ==
    LET r1 == IF can_transition(m, Disconnecting)
              THEN transition(m, Disconnecting)
              ELSE [m |-> m, res |-> Ok, took |-> <<>>]
    IN  [m |-> force_transition(r1.m, Disconnected), res |-> Ok,
         took |-> r1.took \o <<StateTransition(r1.m.current, Disconnected)>>]

\* stop() without the early return on Disconnected
stop_unguarded ==
    /\ mode \in {"host", "client"}
    /\ is_running' = FALSE
    /\ sm' = force_transition(sm, Disconnected)
    /\ call' = Called("stop", NoArg, sm.current, Ok,
                      <<StateTransition(sm.current, Disconnected)>>)
    /\ UNCHANGED <<mode, outside_session, wpc, frame_sequence, cap, stats, frames, net_vars, received>>

stop ==
    /\ mode \in {"host", "client"}
    /\ IF sm.current = Disconnected
       THEN /\ call' = Called("stop", NoArg, sm.current, Ok, <<>>)
            /\ UNCHANGED <<sm, is_running>>
       ELSE LET r == stop_path(sm)
            IN  /\ is_running' = FALSE
                /\ sm' = r.m
                /\ call' = Called("stop", NoArg, sm.current, r.res, r.took)
    /\ UNCHANGED <<mode, outside_session, wpc, frame_sequence, cap, stats, frames, net_vars, received>>

PauseCount(h) == Cardinality({i \in DOMAIN h : h[i].to = Paused})

pause ==
    /\ mode \in {"host", "client"}
    /\ PauseCount(sm.history) < MaxPauses
    /\ LET r == transition(sm, Paused)
       IN  /\ sm' = r.m
           /\ call' = Called("pause", NoArg, sm.current, r.res, r.took)
    /\ UNCHANGED <<mode, outside_session, session_vars>>

resume ==
    /\ mode \in {"host", "client"}
    /\ LET r == transition(sm, Active)
       IN  /\ sm' = r.m
           /\ call' = Called("resume", NoArg, sm.current, r.res, r.took)
    /\ UNCHANGED <<mode, outside_session, session_vars>>

\* ------------------------------------------------------------------------
\* Workers that only poll: input receiver, control handler, frame receiver
\* ------------------------------------------------------------------------
\* one round of `while is_running.load(SeqCst) { ...; sleep(100 ms) }`: the
\* body reads the state (input receiver, frame receiver) and sleeps, it
\* changes nothing; the worker returns once it loads false
PollingWorker(w) ==
    /\ wpc[w] = "loop"
    /\ wpc' = [wpc EXCEPT ![w] = IF is_running THEN "loop" ELSE "done"]
    /\ UNCHANGED <<mode, outside_session, sm, call, is_running, frame_sequence, cap, stats, frames, net_vars, received>>

\* ------------------------------------------------------------------------
\* The host's capture worker (spawn_frame_capture_task)
\* ------------------------------------------------------------------------
\* runtime, display and capturer are created before the loop; each failure
\* returns from the thread
CaptureInit ==
    /\ wpc["capture"] = "init"
    /\ \E ok \in BOOLEAN :
         wpc' = [wpc EXCEPT !["capture"] = IF ok THEN "loop" ELSE "done"]
    /\ UNCHANGED <<mode, outside_session, sm, call, is_running, frame_sequence, cap, stats, frames, net_vars, received>>

\* `while is_running.load(SeqCst)`
CaptureLoop ==
    /\ wpc["capture"] = "loop"
    /\ wpc' = [wpc EXCEPT !["capture"] = IF is_running THEN "check" ELSE "done"]
    /\ UNCHANGED <<mode, outside_session, sm, call, is_running, frame_sequence, cap, stats, frames, net_vars, received>>

\* should_capture: the state read under the read lock; if it is not Active the
\* worker sleeps 100 ms and goes round
should_capture(m) == m.current = Active

CaptureCheckState ==
    /\ wpc["capture"] = "check"
    /\ wpc' = [wpc EXCEPT !["capture"] =
                 IF should_capture(sm) THEN "capture" ELSE "loop"]
    /\ UNCHANGED <<mode, outside_session, sm, call, is_running, frame_sequence, cap, stats, frames, net_vars, received>>

\* a counter that hands out its value without advancing
fetch_add_stuck(counter) == [value |-> counter, counter |-> counter]

\* sequence.fetch_add(1): the value before the addition is the frame's number
fetch_add(counter) == [value |-> counter, counter |-> counter + 1]

\* capture_frame_blocking: a frame with the next sequence number, or an error
\* (timeout after 1 s of WouldBlock, or any other capturer error)
CaptureFrame ==
    /\ wpc["capture"] = "capture"
    /\ \/ /\ frame_sequence < MaxSeq
          /\ LET f == fetch_add(frame_sequence)
             IN  /\ frame_sequence' = f.counter
                 /\ cap' = [hand |-> f.value, consecutive_failures |-> 0]
          /\ wpc' = [wpc EXCEPT !["capture"] = "encode"]
       \/ /\ \/ cap.consecutive_failures < MaxTransientFailures
             \/ frame_sequence = MaxSeq
          /\ cap' = [cap EXCEPT !.consecutive_failures = @ + 1]
          /\ wpc' = [wpc EXCEPT !["capture"] =
                       IF cap.consecutive_failures + 1 >= MAX_FAILURES
                       THEN "done" ELSE "loop"]
          /\ UNCHANGED frame_sequence
    /\ UNCHANGED <<mode, outside_session, sm, call, is_running, stats, frames, net_vars, received>>

\* encoder.encode(&frame): Ok goes on to send, Err counts a dropped frame
CaptureEncode ==
    /\ wpc["capture"] = "encode"
    /\ \/ /\ wpc' = [wpc EXCEPT !["capture"] = "send"]
          /\ UNCHANGED <<cap, stats>>
       \/ /\ stats' = [stats EXCEPT !.frames_dropped = @ + 1]
          /\ cap' = [cap EXCEPT !.hand = NoFrame]
          /\ wpc' = [wpc EXCEPT !["capture"] = "loop"]
    /\ UNCHANGED <<mode, outside_session, sm, call, is_running, frame_sequence, frames, net_vars, received>>

\* a channel that never makes its senders wait
has_room_always(ch) == TRUE

\* tokio mpsc of capacity FRAME_CHANNEL_BUFFER: a send completes when the
\* queue has room
has_room(ch) == Len(ch.queue) < FRAME_CHANNEL_BUFFER

\* frame_tx.blocking_send(transport_frame): Err when the receiver is gone
\* (the worker breaks out of the loop), otherwise waits for room, enqueues and
\* counts the frame as sent
CaptureSend ==
    /\ wpc["capture"] = "send"
    /\ IF ~frames.rx_open
       THEN /\ wpc' = [wpc EXCEPT !["capture"] = "done"]
            /\ cap' = [cap EXCEPT !.hand = NoFrame]
            /\ UNCHANGED <<frames, stats>>
       ELSE /\ has_room(frames)
            /\ frames' = [frames EXCEPT !.queue = Append(@, cap.hand)]
            /\ stats' = [stats EXCEPT !.frames_sent = @ + 1]
            /\ cap' = [cap EXCEPT !.hand = NoFrame]
            /\ wpc' = [wpc EXCEPT !["capture"] = "loop"]
    /\ UNCHANGED <<mode, outside_session, sm, call, is_running, frame_sequence, net_vars, received>>

\* ------------------------------------------------------------------------
\* The video bridges of a networked transport (create_quic_transport)
\* ------------------------------------------------------------------------
\* spawn_channel_to_stream, `rx.recv().await`: takes the oldest queued frame
BridgeOutRecv ==
    /\ bridge.out_pc = "recv"
    /\ frames.queue # <<>>
    /\ bridge' = [bridge EXCEPT !.out_pc = "send", !.out_hand = Head(frames.queue)]
    /\ frames' = [frames EXCEPT !.queue = Tail(@)]
    /\ UNCHANGED <<mode, outside_session, sm, call, is_running, wpc, frame_sequence, cap, stats,
                   transport, stream, frames_in, received>>

\* spawn_channel_to_stream, `sender.send(msg).await`: suspends on flow
\* control; an error ends the task, which drops the queue's receiving half
BridgeOutSend ==
    /\ bridge.out_pc = "send"
    /\ IF stream.open
       THEN /\ Len(stream.data) < StreamWindow
            /\ stream' = [stream EXCEPT !.data = Append(@, bridge.out_hand)]
            /\ bridge' = [bridge EXCEPT !.out_pc = "recv", !.out_hand = NoFrame]
            /\ UNCHANGED frames
       ELSE /\ bridge' = [bridge EXCEPT !.out_pc = "done", !.out_hand = NoFrame]
            /\ frames' = rx_dropped
            /\ UNCHANGED stream
    /\ UNCHANGED <<mode, outside_session, sm, call, is_running, wpc, frame_sequence, cap, stats,
                   transport, frames_in, received>>

\* spawn_stream_to_channel, `receiver.recv().await`: the next frame of the
\* substream, or an error that ends the task
BridgeInRecv ==
    /\ bridge.in_pc = "recv"
    /\ IF stream.open
       THEN /\ stream.data # <<>>
            /\ bridge' = [bridge EXCEPT !.in_pc = "send", !.in_hand = Head(stream.data)]
            /\ stream' = [stream EXCEPT !.data = Tail(@)]
       ELSE /\ bridge' = [bridge EXCEPT !.in_pc = "done"]
            /\ UNCHANGED stream
    /\ UNCHANGED <<mode, outside_session, sm, call, is_running, wpc, frame_sequence, cap, stats,
                   frames, transport, frames_in, received>>

\* spawn_stream_to_channel, `tx.send(msg).await`: waits for room; ends the
\* task when the receiving half is gone
BridgeInSend ==
    /\ bridge.in_pc = "send"
    /\ IF frames_in.rx_open
       THEN /\ has_room(frames_in)
            /\ frames_in' = [frames_in EXCEPT !.queue = Append(@, bridge.in_hand)]
            /\ bridge' = [bridge EXCEPT !.in_pc = "recv", !.in_hand = NoFrame]
       ELSE /\ bridge' = [bridge EXCEPT !.in_pc = "done", !.in_hand = NoFrame]
            /\ UNCHANGED frames_in
    /\ UNCHANGED <<mode, outside_session, sm, call, is_running, wpc, frame_sequence, cap, stats,
                   frames, transport, stream, received>>

\* the connection is lost: what is in flight is discarded and both ends of
\* the substream report an error from then on
ConnectionLost ==
    /\ transport = "quic"
    /\ stream.open
    /\ stream' = [data |-> <<>>, open |-> FALSE]
    /\ UNCHANGED <<mode, outside_session, sm, call, is_running, wpc, frame_sequence, cap, stats,
                   frames, transport, bridge, frames_in, received>>

\* ------------------------------------------------------------------------
\* The holder of the client's frames.rx (viewer, test or demo)
\* ------------------------------------------------------------------------
\* frames.rx.recv() on the loopback channel
FrameRecv ==
    /\ mode = "host"
    /\ transport = "loopback"
    /\ frames.rx_open
    /\ frames.queue # <<>>
    /\ received' = Append(received, Head(frames.queue))
    /\ frames' = [frames EXCEPT !.queue = Tail(@)]
    /\ UNCHANGED <<mode, outside_session, sm, call, is_running, wpc, frame_sequence, cap, stats,
                   net_vars>>

\* frames.rx.recv() on the client side of a networked transport
FrameRecvNet ==
    /\ transport = "quic"
    /\ frames_in.rx_open
    /\ frames_in.queue # <<>>
    /\ received' = Append(received, Head(frames_in.queue))
    /\ frames_in' = [frames_in EXCEPT !.queue = Tail(@)]
    /\ UNCHANGED <<mode, outside_session, sm, call, is_running, wpc, frame_sequence, cap, stats,
                   frames, transport, bridge, stream>>

\* the client's transport is dropped
FrameRxDrop ==
    /\ mode = "host"
    /\ IF transport = "loopback"
       THEN /\ frames.rx_open
            /\ frames' = rx_dropped
            /\ UNCHANGED frames_in
       ELSE /\ frames_in.rx_open
            /\ frames_in' = rx_dropped
            /\ UNCHANGED frames
    /\ UNCHANGED <<mode, outside_session, sm, call, is_running, wpc, frame_sequence, cap, stats,
                   transport, bridge, stream, received>>

\* ------------------------------------------------------------------------
\* The input channel of a loopback transport (create_loopback_transport):
\* client_transport.input.tx feeds host_transport.input.rx
\* ------------------------------------------------------------------------
session_side == <<sm, call, session_vars, apart>>

connection_side == <<inbound, incoming, manager, dials, established>>

\* a receiver that hands out the newest queued message
recv_newest(queue) ==
    [value |-> queue[Len(queue)], queue |-> SubSeq(queue, 1, Len(queue) - 1)]

\* mpsc::Receiver::recv on a non-empty queue: the oldest message
recv(queue) == [value |-> Head(queue), queue |-> Tail(queue)]

\* mpsc::Sender::try_send on a channel of the given capacity: Closed when the
\* receiver is gone, Full when the queue holds `capacity` messages, otherwise
\* the message is appended
try_send(ch, capacity, msg) ==
    IF ~ch.rx_open THEN [queue |-> ch.queue, res |-> "Closed"]
    ELSE IF Len(ch.queue) >= capacity THEN [queue |-> ch.queue, res |-> "Full"]
    ELSE [queue |-> Append(ch.queue, msg), res |-> "Ok"]

\* what a try_send by an input producer leaves behind: the event is queued,
\* or it is gone (Full and Closed both hand the event back, and both callers
\* let it go)
input_after_try_send(sequence) ==
    LET r == try_send(input, DEFAULT_CHANNEL_BUFFER, sequence)
    IN  [input EXCEPT !.input_sequence = fetch_add(@).counter,
                      !.queue = r.queue,
                      !.sent = IF r.res = "Ok" THEN Append(@, sequence) ELSE @,
                      !.discarded = IF r.res = "Full" THEN Append(@, sequence) ELSE @]

\* `input.tx.send(event).await`: completes when the queue has room, fails at
\* once when the receiver is gone
InputSendAwait ==
    /\ mode = "transport"
    /\ input.input_sequence < MaxInputs
    /\ IF input.rx_open
       THEN /\ Len(input.queue) < DEFAULT_CHANNEL_BUFFER
            /\ input' = [input EXCEPT
                           !.input_sequence = fetch_add(@).counter,
                           !.queue = Append(@, fetch_add(input.input_sequence).value),
                           !.sent = Append(@, fetch_add(input.input_sequence).value)]
       ELSE input' = [input EXCEPT !.input_sequence = fetch_add(@).counter]
    /\ UNCHANGED <<mode, session_side, connection_side>>

\* ClientSession::send_input with config.send_input set: the event takes the
\* next sequence number and is offered with try_send; Full and Closed both
\* return Err(ChannelClosed)
send_input ==
    /\ mode = "transport"
    /\ input.input_sequence < MaxInputs
    /\ input' = input_after_try_send(fetch_add(input.input_sequence).value)
    /\ UNCHANGED <<mode, session_side, connection_side>>

\* ViewerWindow::send_input: the same try_send; only a queued event is
\* counted in input_events_sent
viewer_send_input ==
    /\ mode = "transport"
    /\ input.input_sequence < MaxInputs
    /\ LET after == input_after_try_send(fetch_add(input.input_sequence).value)
       IN  input' = [after EXCEPT !.input_events_sent =
                       IF Len(after.sent) > Len(input.sent) THEN @ + 1 ELSE @]
    /\ UNCHANGED <<mode, session_side, connection_side>>

\* host_transport.input.rx.recv()
InputRecv ==
    /\ mode = "transport"
    /\ input.rx_open
    /\ input.queue # <<>>
    /\ LET r == recv(input.queue)
       IN  input' = [input EXCEPT !.queue = r.queue,
                                  !.received = Append(@, r.value)]
    /\ UNCHANGED <<mode, session_side, connection_side>>

\* the host's transport is dropped: what is queued is discarded with it
InputRxDrop ==
    /\ mode = "transport"
    /\ input.rx_open
    /\ input' = [input EXCEPT !.queue = <<>>, !.rx_open = FALSE]
    /\ UNCHANGED <<mode, session_side, connection_side>>

\* ------------------------------------------------------------------------
\* Handshake protocol data (network/protocol.rs)
\* ------------------------------------------------------------------------
\* the local manager's device id, two peers, and a number that is no 9-digit id
LocalId == 100000003

FirstPeer == 100000001

SecondPeer == 100000002

NotAnId == 99999999

Peers == {FirstPeer, SecondPeer}

\* DeviceId::from_u32: only 9-digit numbers are device ids
from_u32(id) == [ok |-> ~(id < DEVICE_ID_MIN \/ id > DEVICE_ID_MAX), id |-> id]

\* Option<String>
None == [some |-> FALSE, text |-> <<>>]

Some(text) == [some |-> TRUE, text |-> text]

unwrap_or_default(o) == IF o.some THEN o.text ELSE <<>>

\* Option<[u8; 32]>: no hash, the hash the password file accepts, another one
NoHash == "None"

PasswordHashes == {"hash_of_password", "hash_of_other"}

\* PasswordManager::verify_password against the stored hash: Ok only for the
\* credential the file was made from
verify_password(presented, hash) == presented = hash

password_hash_file == "hash_of_password"

\* session ids a host can draw for ConnectionAccept
SessionIds == {"sid_a", "sid_b"}

RejectReason ==
    {"UserDenied", "InvalidPassword", "InvalidId", "AlreadyConnected",
     "AccountLocked", "UnsupportedVersion"}

NoMessage == [type |-> "NoMessage"]

\* what recv() returns once the connection is gone
RecvError == [type |-> "RecvError"]

Heartbeat == [type |-> "Heartbeat"]

ConnectionRequest(version, client_id, host_id, password_hash) ==
    [type |-> "ConnectionRequest", protocol_version |-> version,
     client_id |-> client_id, host_id |-> host_id, password_hash |-> password_hash]

\* ConnectionRequest::new: always the current protocol version
ConnectionRequest_new(client_id, host_id, password_hash) ==
    ConnectionRequest(CURRENT_PROTOCOL_VERSION, client_id, host_id, password_hash)

\* ConnectionAccept::new draws the session id; here the caller passes the draw
ConnectionAccept(session_id) == [type |-> "ConnectionAccept", session_id |-> session_id]

ConnectionReject(reason, message) ==
    [type |-> "ConnectionReject", reason |-> reason, message |-> message]

\* the first message a client of any make can put on the control substream
FirstMessages ==
    {ConnectionRequest_new(p, LocalId, h) : p \in Peers, h \in {NoHash} \cup PasswordHashes}
    \cup {ConnectionRequest(0, FirstPeer, LocalId, NoHash),
          ConnectionRequest_new(FirstPeer, SecondPeer, NoHash),
          ConnectionRequest(0, FirstPeer, SecondPeer, NoHash),
          ConnectionRequest_new(NotAnId, LocalId, NoHash),
          Heartbeat}

\* the first message of a peer running this program's connect()
PeerFirstMessages == {ConnectionRequest_new(p, LocalId, NoHash) : p \in Peers}

\* ------------------------------------------------------------------------
\* ConnectionListener (network/listener.rs)
\* ------------------------------------------------------------------------
IncomingConnection(request, connection_id) ==
    [remote_device_id |-> request.client_id,
     has_password |-> request.password_hash # NoHash,
     password_hash |-> request.password_hash,
     connection_id |-> connection_id,
     request |-> request]

\* outcomes of handle_incoming_connection: Ok((incoming, pending)), or Err
\* after an optional ConnectionReject; on Err the connection is closed, by
\* close() or by dropping its only handle
Forward(inc) == [ok |-> TRUE, incoming |-> inc, reply |-> NoMessage]

Refuse(reply) == [ok |-> FALSE, incoming |-> NoMessage, reply |-> reply]

\* format!("Expected protocol version {}, got {}", CURRENT, got)
version_mismatch_message(got) ==
    <<"Expected protocol version ", ToString(CURRENT_PROTOCOL_VERSION),
      ", got ", ToString(got)>>

\* handle_incoming_connection from the version check on
validate_request(request, connection_id, local_device_id) ==
    IF request.protocol_version # CURRENT_PROTOCOL_VERSION
    THEN Refuse(ConnectionReject("UnsupportedVersion",
                                 Some(version_mismatch_message(request.protocol_version))))
    ELSE IF request.host_id # local_device_id
    THEN Refuse(ConnectionReject("InvalidId", Some(<<"Host ID does not match">>)))
    ELSE IF ~from_u32(request.client_id).ok
    THEN Refuse(NoMessage)
    ELSE Forward(IncomingConnection(request, connection_id))

\* a handler that takes whatever comes first for a request of the first peer
handle_incoming_connection_untyped(msg, connection_id, local_device_id) ==
    IF msg.type # "ConnectionRequest"
    THEN Forward(IncomingConnection(
             ConnectionRequest_new(FirstPeer, local_device_id, NoHash), connection_id))
    ELSE validate_request(msg, connection_id, local_device_id)

\* handle_incoming_connection: the first message must be a ConnectionRequest
handle_incoming_connection(msg, connection_id, local_device_id) ==
    IF msg.type # "ConnectionRequest"
    THEN Refuse(NoMessage)
    ELSE validate_request(msg, connection_id, local_device_id)

\* the client's connect() is waiting for the response
Waiting == [done |-> FALSE, ok |-> FALSE, session_id |-> "-", error |-> "-", text |-> <<>>]

Established(session_id) ==
    [done |-> TRUE, ok |-> TRUE, session_id |-> session_id, error |-> "-", text |-> <<>>]

\* a NetworkError with its Display text
Failed(error, text) ==
    [done |-> TRUE, ok |-> FALSE, session_id |-> "-", error |-> error, text |-> text]

\* endpoint.accept() returned a connection; connection_counter becomes its
\* connection_id and a handler task is spawned for it
Accepted(first) ==
    [first |-> first, stage |-> "handshake", response |-> NoMessage,
     closed |-> FALSE, client |-> Waiting]

ListenerAccept ==
    /\ mode \in {"listener", "manager"}
    /\ manager.connection_counter <
           (IF mode = "listener" THEN MaxInbound ELSE MaxPeerInbound)
    /\ \E first \in (IF mode = "listener" THEN FirstMessages ELSE PeerFirstMessages) :
         inbound' = Append(inbound, Accepted(first))
    /\ manager' = [manager EXCEPT !.connection_counter = @ + 1]
    /\ UNCHANGED <<mode, session_side, input, incoming, dials, established>>

\* the handler task of one connection: the tasks of different connections
\* run concurrently, each sends its result on incoming_tx when it is done
HandleIncoming(id) ==
    /\ id \in DOMAIN inbound
    /\ inbound[id].stage = "handshake"
    /\ LET r == handle_incoming_connection(inbound[id].first, id, LocalId)
       IN  IF r.ok
           THEN /\ incoming' = Append(incoming, r.incoming)
                /\ inbound' = [inbound EXCEPT ![id].stage = "incoming"]
           ELSE /\ inbound' = [inbound EXCEPT ![id].stage = "failed",
                                              ![id].response = r.reply,
                                              ![id].closed = TRUE]
                /\ UNCHANGED incoming
    /\ UNCHANGED <<mode, session_side, input, manager, dials, established>>

\* ------------------------------------------------------------------------
\* ConnectionManager (network/manager.rs)
\* ------------------------------------------------------------------------
\* a manager that admits every forwarded request
admits_always(inc, password_required) == TRUE

\* the test of the incoming task: a request is turned away only when a
\* password is required and the request carries none
admits(inc, password_required) == ~(password_required /\ ~inc.has_password)

\* PasswordManager::is_password_set(&password_hash_path)
is_password_set(config) == config.password_set

\* connections.insert(remote_id, connection): a second insert under the same
\* id replaces the first
insert(connections, remote_id, connection) ==
    [d \in DOMAIN connections \cup {remote_id} |->
        IF d = remote_id THEN connection ELSE connections[d]]

\* ConnectionManager::is_connected: every recorded connection is Connected
is_connected(m, remote_id) == remote_id \in DOMAIN m.connections

ConnectionRequestEvent(inc) ==
    [event |-> "ConnectionRequest", remote_id |-> inc.remote_device_id,
     has_password |-> inc.has_password, connection_id |-> inc.connection_id]

Connected(remote_id) ==
    [event |-> "Connected", remote_id |-> remote_id, has_password |-> FALSE,
     connection_id |-> 0]

\* EstablishedConnection, with the connection_id it came from (0 for one
\* made by connect()) and whether its QuicConnection is still open
EstablishedConnection(remote_id, session_id, role, connection_id) ==
    [remote_device_id |-> remote_id, session_id |-> session_id, role |-> role,
     connection_id |-> connection_id, transport_open |-> TRUE]

\* the task start() spawns on incoming_rx: reject for a missing password
\* (PendingConnection::reject sends the reply and closes), otherwise store the
\* pending connection and emit ConnectionRequest
ManagerAdmit ==
    /\ mode \in {"listener", "manager"}
    /\ incoming # <<>>
    /\ LET inc == Head(incoming)
           id == inc.connection_id
       IN  IF admits(inc, is_password_set(manager.config))
           THEN /\ manager' = [manager EXCEPT
                                 !.pending_connections = @ \cup {id},
                                 !.events = Append(@, ConnectionRequestEvent(inc))]
                /\ inbound' = [inbound EXCEPT ![id].stage = "pending"]
           ELSE /\ inbound' = [inbound EXCEPT
                                 ![id].stage = "rejected",
                                 ![id].response = ConnectionReject("InvalidPassword", None),
                                 ![id].closed = TRUE]
                /\ UNCHANGED manager
    /\ incoming' = Tail(incoming)
    /\ UNCHANGED <<mode, session_side, input, dials, established>>

\* accept_connection(connection_id) for a pending id: PendingConnection::accept
\* sends ConnectionAccept with a fresh session id, then the connection is
\* recorded under the client's device id, Connected is emitted and the
\* EstablishedConnection returned
accept_connection ==
    /\ mode \in {"listener", "manager"}
    /\ \E id \in manager.pending_connections, session_id \in SessionIds :
         LET remote_id == inbound[id].first.client_id
         IN  /\ inbound' = [inbound EXCEPT ![id].stage = "established",
                                           ![id].response = ConnectionAccept(session_id)]
             /\ manager' = [manager EXCEPT
                              !.pending_connections = @ \ {id},
                              !.connections = insert(@, remote_id,
                                                     [session_id |-> session_id, role |-> "Host"]),
                              !.events = Append(@, Connected(remote_id))]
             /\ established' = Append(established,
                                      EstablishedConnection(remote_id, session_id, "Host", id))
    /\ UNCHANGED <<mode, session_side, input, incoming, dials>>

\* reject_connection(connection_id, reason) for a pending id
reject_connection ==
    /\ mode \in {"listener", "manager"}
    /\ \E id \in manager.pending_connections :
         /\ inbound' = [inbound EXCEPT
                          ![id].stage = "rejected",
                          ![id].response = ConnectionReject("UserDenied", None),
                          ![id].closed = TRUE]
         /\ manager' = [manager EXCEPT !.pending_connections = @ \ {id}]
    /\ UNCHANGED <<mode, session_side, input, incoming, dials, established>>

\* NetworkError::ConnectionRejected(format!("{:?}: {}", reason, message)),
\* displayed as "Connection rejected: {0}"
connection_rejected(reject) ==
    Failed("ConnectionRejected",
           <<"Connection rejected: ", reject.reason, ": ">>
               \o unwrap_or_default(reject.message))

\* a client that makes up the session id it keeps
connect_response_own_session(response) ==
    CASE response.type = "ConnectionAccept" -> Established("sid_a")
      [] response.type = "ConnectionReject" -> connection_rejected(response)
      [] response.type = "RecvError" ->
             Failed("ConnectionFailed", <<"Connection failed: ", "connection lost">>)
      [] OTHER ->
             Failed("ProtocolError",
                    <<"Protocol error: ", "Unexpected response to connection request">>)

\* connect() from `control_stream.recv().await` on: the EstablishedConnection
\* keeps accept.session_id; a reject, an unexpected message and a failed
\* read each become their error
connect_response(response) ==
    CASE response.type = "ConnectionAccept" -> Established(response.session_id)
      [] response.type = "ConnectionReject" -> connection_rejected(response)
      [] response.type = "RecvError" ->
             Failed("ConnectionFailed", <<"Connection failed: ", "connection lost">>)
      [] OTHER ->
             Failed("ProtocolError",
                    <<"Protocol error: ", "Unexpected response to connection request">>)

\* the remote client's connect() gets its answer. On an open connection that
\* is the host's response. Once the host has closed the connection, delivery
\* of a response written just before is not guaranteed: the client reads the
\* response or a connection error
ClientResponse(id) ==
    /\ id \in DOMAIN inbound
    /\ ~inbound[id].client.done
    /\ \/ /\ inbound[id].response # NoMessage
          /\ inbound' = [inbound EXCEPT ![id].client = connect_response(inbound[id].response)]
       \/ /\ inbound[id].closed
          /\ inbound' = [inbound EXCEPT ![id].client = connect_response(RecvError)]
    /\ UNCHANGED <<mode, session_side, input, incoming, manager, dials, established>>

\* connect(remote_id, password) is called
Connect ==
    /\ mode = "manager"
    /\ Len(dials) < MaxDials
    /\ \E remote_id \in Peers :
         dials' = Append(dials, [remote_id |-> remote_id, pc |-> "check_connected",
                                 result |-> Waiting])
    /\ UNCHANGED <<mode, session_side, input, inbound, incoming, manager, established>>

\* connect(): `if self.is_connected(remote_id).await`
ConnectCheckConnected(i) ==
    /\ i \in DOMAIN dials
    /\ dials[i].pc = "check_connected"
    /\ dials' = IF is_connected(manager, dials[i].remote_id)
                THEN [dials EXCEPT ![i].pc = "done",
                                   ![i].result = Failed("ConnectionFailed",
                                       <<"Connection failed: ", "Already connected to this device">>)]
                ELSE [dials EXCEPT ![i].pc = "check_max"]
    /\ UNCHANGED <<mode, session_side, input, inbound, incoming, manager, established>>

\* connect(): `if connections.len() >= self.config.max_connections`, under a
\* read lock that is dropped before the handshake
ConnectCheckMax(i) ==
    /\ i \in DOMAIN dials
    /\ dials[i].pc = "check_max"
    /\ dials' = IF Cardinality(DOMAIN manager.connections) >= manager.config.max_connections
                THEN [dials EXCEPT ![i].pc = "done",
                                   ![i].result = Failed("ConnectionFailed",
                                       <<"Connection failed: ", "Maximum connections reached">>)]
                ELSE [dials EXCEPT ![i].pc = "handshake"]
    /\ UNCHANGED <<mode, session_side, input, inbound, incoming, manager, established>>

\* connect(): resolve, open the connection, send the request and read the
\* remote host's answer; on ConnectionAccept the connection is recorded under
\* remote_id, Connected emitted and the EstablishedConnection returned
ConnectHandshake(i) ==
    /\ i \in DOMAIN dials
    /\ dials[i].pc = "handshake"
    /\ \E response \in {ConnectionAccept(s) : s \in SessionIds}
                       \cup {ConnectionReject("UserDenied", None), RecvError} :
         LET r == connect_response(response)
             remote_id == dials[i].remote_id
         IN  /\ dials' = [dials EXCEPT ![i].pc = "done", ![i].result = r]
             /\ IF r.ok
                THEN /\ manager' = [manager EXCEPT
                                      !.connections = insert(@, remote_id,
                                          [session_id |-> r.session_id, role |-> "Client"]),
                                      !.events = Append(@, Connected(remote_id))]
                     /\ established' = Append(established,
                            EstablishedConnection(remote_id, r.session_id, "Client", 0))
                ELSE UNCHANGED <<manager, established>>
    /\ UNCHANGED <<mode, session_side, input, inbound, incoming>>

\* ------------------------------------------------------------------------
\* The end of a connection
\* ------------------------------------------------------------------------
ConnectionEvent_Disconnected(remote_id) ==
    [event |-> "Disconnected", remote_id |-> remote_id, has_password |-> FALSE,
     connection_id |-> 0]

\* connections.remove(&remote_id)
remove(connections, remote_id) ==
    [d \in DOMAIN connections \ {remote_id} |-> connections[d]]

\* the transport under an established connection closes: the peer closed it,
\* or it idled out. The manager holds no handle on it (quic_connections is
\* never filled) and runs no task that watches it
TransportClosed ==
    /\ mode = "manager"
    /\ \E i \in DOMAIN established :
         /\ established[i].transport_open
         /\ established' = [established EXCEPT ![i].transport_open = FALSE]
    /\ UNCHANGED <<mode, session_side, input, inbound, incoming, manager, dials>>

\* disconnect(remote_id), called by the embedding program: the recorded
\* connection, if there is one, is set Disconnecting, then Disconnected, and
\* removed; the Disconnected event is emitted whether or not there was one
disconnect ==
    /\ mode = "manager"
    /\ Cardinality({k \in DOMAIN manager.events :
                        manager.events[k].event = "Disconnected"}) < MaxDisconnects
    /\ \E remote_id \in Peers :
         manager' = [manager EXCEPT
                       !.connections = remove(@, remote_id),
                       !.events = Append(@, ConnectionEvent_Disconnected(remote_id))]
    /\ UNCHANGED <<mode, session_side, input, inbound, incoming, dials, established>>

\* ------------------------------------------------------------------------
\* A FrameDecoder driven through its public API
\* ------------------------------------------------------------------------
session_and_manager == <<sm, call, session_vars, input, connection_side, aside>>

\* everything but what stands aside
all_but_aside ==
    <<sm, call, session_vars, input, connection_side, decoder, viewer, link, discovery>>

CallDecode ==
    /\ mode = "decoder"
    /\ decoder.stats.frames_decoded + decoder.stats.frames_dropped < MaxDecodes
    /\ \E sequence \in 0..MaxFrameSequence, kind \in FrameKinds :
         decoder' = decode(decoder, EncodedFrame(sequence, kind[1], kind[2]))
    /\ UNCHANGED <<mode, session_and_manager, viewer, link, discovery>>

CallDecodeTransport ==
    /\ mode = "decoder"
    /\ decoder.stats.frames_decoded + decoder.stats.frames_dropped < MaxDecodes
    /\ \E sequence \in 0..MaxFrameSequence, kind \in FrameKinds :
         decoder' = decode_transport(decoder, TransportFrame(sequence, kind[1], kind[2]))
    /\ UNCHANGED <<mode, session_and_manager, viewer, link, discovery>>

CallResetStats ==
    /\ mode = "decoder"
    /\ decoder.seen # <<>>
    /\ decoder' = reset_stats(decoder)
    /\ UNCHANGED <<mode, session_and_manager, viewer, link, discovery>>

\* ------------------------------------------------------------------------
\* A ViewerWindow and the sender of its frames
\* ------------------------------------------------------------------------
\* frame_tx.send(frame).await on the viewer's frames channel
FrameArrives ==
    /\ mode = "viewer"
    /\ viewer.arrived < MaxArrivals
    /\ Len(viewer.frame_rx) < FRAME_CHANNEL_BUFFER
    /\ \E sequence \in 0..MaxFrameSequence, kind \in FrameKinds :
         viewer' = [viewer EXCEPT
                      !.frame_rx = Append(@, TransportFrame(sequence, kind[1], kind[2])),
                      !.arrived = @ + 1]
    /\ UNCHANGED <<mode, session_and_manager, decoder, link, discovery>>

\* process_frame: decode, then either show the frame or count it as dropped
process_frame(v, d, transport_frame) ==
    LET decoded == decode_transport(d, transport_frame)
        result == decoded.seen[Len(decoded.seen)].ok
    IN [decoder |-> decoded,
        viewer |-> IF result
                   THEN [v EXCEPT !.texture = transport_frame.sequence,
                                  !.stats.frames_displayed = @ + 1]
                   ELSE [v EXCEPT !.stats.frames_dropped = @ + 1]]

\* one update tick that finds frames waiting
process_pending_frames ==
    /\ mode = "viewer"
    /\ viewer.frame_rx # <<>>
    /\ LET drained == viewer.frame_rx
           frames_received == Len(drained)
           counted == [viewer EXCEPT
                         !.frame_rx = <<>>,
                         !.stats.frames_received = @ + frames_received,
                         !.stats.frames_dropped =
                             IF frames_received > 1 THEN @ + (frames_received - 1) ELSE @]
           processed == process_frame(counted, decoder, latest_frame(drained))
       IN /\ viewer' = processed.viewer
          /\ decoder' = processed.decoder
    /\ UNCHANGED <<mode, session_and_manager, link, discovery>>

\* ------------------------------------------------------------------------
\* A substream used through StreamSender and StreamReceiver
\* ------------------------------------------------------------------------
\* messages of one byte, of exactly MAX_MESSAGE_SIZE and of one byte more
StreamMessages ==
    {Blob(body, size) : body \in {"a", "b"},
                        size \in {1, MAX_MESSAGE_SIZE, MAX_MESSAGE_SIZE + 1}}

\* write_all waits for flow-control credit: the messages written and not read
InFlight(s) == Cardinality({i \in DOMAIN s.segments : s.segments[i].kind = "data"})

\* sender.send(msg).await
StreamSend ==
    /\ mode = "stream"
    /\ Len(link.sent) < MaxSends
    /\ InFlight(link.stream) < MaxInFlight
    /\ \E msg \in StreamMessages :
         LET sending == StreamSender_send(link.stream, msg)
         IN link' = [link EXCEPT
                       !.stream = sending.stream,
                       !.sent = Append(@, [msg |-> msg, result |-> sending.result,
                                           segments_written |->
                                               Len(sending.stream.segments)
                                               - Len(link.stream.segments)])]
    /\ UNCHANGED <<mode, session_and_manager, decoder, viewer, discovery>>

\* receiver.recv().await
StreamRecv ==
    /\ mode = "stream"
    /\ Len(link.results) <= MaxSends
    /\ can_recv(link.stream)
    /\ LET receiving == StreamReceiver_recv(link.stream, link.kind)
       IN link' = [link EXCEPT !.stream = receiving.stream,
                               !.results = Append(@, receiving.result)]
    /\ UNCHANGED <<mode, session_and_manager, decoder, viewer, discovery>>

\* the writer finishes the substream: finish(), or its SendStream is dropped
StreamFinish ==
    /\ mode \in {"stream", "bridge"}
    /\ link.stream.state = "open"
    /\ link' = [link EXCEPT !.stream.state = "finished"]
    /\ UNCHANGED <<mode, session_and_manager, decoder, viewer, discovery>>

\* the connection under the substream is closed or times out: what is in
\* flight is discarded and both ends get an error from then on
SubstreamLost ==
    /\ mode \in {"stream", "bridge"}
    /\ link.stream.state = "open"
    /\ link' = [link EXCEPT !.stream = [segments |-> <<>>, state |-> "lost"]]
    /\ UNCHANGED <<mode, session_and_manager, decoder, viewer, discovery>>

\* ------------------------------------------------------------------------
\* The bridge tasks at the two ends of a substream (create_quic_transport)
\* ------------------------------------------------------------------------
TypedMessages == {Blob("a", 1), Blob("b", 1)}

ControlMessages == {Ping(1), Pong(2), SetQuality(1)}

\* what a peer of any make can write on the control substream
PeerMessages == {HeartbeatMessage(1), ConnectionAccept("sid_a"), UnknownVariant}

\* mpsc::channel(FRAME_CHANNEL_BUFFER) for frames, DEFAULT_CHANNEL_BUFFER
\* for control
capacity(kind) ==
    IF kind = "typed" THEN FRAME_CHANNEL_BUFFER ELSE DEFAULT_CHANNEL_BUFFER

\* the far session's transport.control.tx.send(msg) / frames.tx.send(msg)
ChannelPut ==
    /\ mode = "bridge"
    /\ link.peer = "program"
    /\ Len(link.put) < MaxPut
    /\ link.out.rx_open
    /\ Len(link.out.queue) < capacity(link.kind)
    /\ \E msg \in IF link.kind = "typed" THEN TypedMessages ELSE ControlMessages :
         link' = [link EXCEPT !.out.queue = Append(@, msg), !.put = Append(@, msg)]
    /\ UNCHANGED <<mode, session_and_manager, decoder, viewer, discovery>>

\* a peer that is not this program writes a framed message
PeerWrites ==
    /\ mode = "bridge"
    /\ link.peer = "any"
    /\ Len(link.put) < MaxPut
    /\ link.stream.state = "open"
    /\ InFlight(link.stream) < MaxInFlight
    /\ \E msg \in PeerMessages :
         LET data == serialize(msg)
         IN link' = [link EXCEPT
                       !.stream.segments =
                           @ \o <<LengthSegment(to_be_bytes(data.len)), DataSegment(data)>>,
                       !.put = Append(@, msg)]
    /\ UNCHANGED <<mode, session_and_manager, decoder, viewer, discovery>>

\* spawn_channel_to_stream / spawn_control_sender, `rx.recv().await` and the
\* match on what it returned
BridgeSenderRecv ==
    /\ mode = "bridge"
    /\ link.sender_pc = "recv"
    /\ link.out.queue # <<>>
    /\ LET going == outgoing(link.kind, Head(link.out.queue))
       IN link' = [link EXCEPT
                     !.out.queue = Tail(@),
                     !.sender_pc = IF going.skip THEN "recv" ELSE "send",
                     !.sender_hand = going.msg]
    /\ UNCHANGED <<mode, session_and_manager, decoder, viewer, discovery>>

\* spawn_channel_to_stream / spawn_control_sender, `sender.send(msg).await`:
\* an error ends the task, which drops the queue's Receiver
BridgeSenderSend ==
    /\ mode = "bridge"
    /\ link.sender_pc = "send"
    /\ link.stream.state = "open" => InFlight(link.stream) < MaxInFlight
    /\ LET sending == StreamSender_send(link.stream, link.sender_hand)
       IN link' = [link EXCEPT
                     !.stream = sending.stream,
                     !.sent = Append(@, [msg |-> link.sender_hand,
                                         result |-> sending.result,
                                         segments_written |->
                                             Len(sending.stream.segments)
                                             - Len(link.stream.segments)]),
                     !.sender_hand = NoValue,
                     !.sender_pc = IF sending.result.ok THEN "recv" ELSE "done",
                     !.out = IF sending.result.ok THEN @
                             ELSE [queue |-> <<>>, tx_open |-> @.tx_open,
                                   rx_open |-> FALSE]]
    /\ UNCHANGED <<mode, session_and_manager, decoder, viewer, discovery>>

\* spawn_stream_to_channel / spawn_control_receiver, `receiver.recv().await`
\* and the match on what it returned: a message to forward, a message to
\* skip, or an error to leave the loop with
BridgeReceiverRecv ==
    /\ mode = "bridge"
    /\ link.receiver_pc = "recv"
    /\ can_recv(link.stream)
    /\ LET receiving == StreamReceiver_recv(link.stream, link.kind)
           coming == IF receiving.result.ok
                     THEN arriving(link.kind, receiving.result.value)
                     ELSE [skip |-> TRUE, msg |-> NoValue]
       IN link' = [link EXCEPT
                     !.stream = receiving.stream,
                     !.results = Append(@, receiving.result),
                     !.receiver_error = receiving.result.error,
                     !.receiver_hand = coming.msg,
                     !.receiver_pc = IF ~receiving.result.ok THEN "break"
                                     ELSE IF coming.skip THEN "recv" ELSE "send"]
    /\ UNCHANGED <<mode, session_and_manager, decoder, viewer, discovery>>

\* spawn_stream_to_channel / spawn_control_receiver, `tx.send(msg).await`:
\* waits for room; leaves the loop when the Receiver is gone
BridgeReceiverSend ==
    /\ mode = "bridge"
    /\ link.receiver_pc = "send"
    /\ link.into.rx_open => Len(link.into.queue) < capacity(link.kind)
    /\ link' = IF link.into.rx_open
               THEN [link EXCEPT !.into.queue = Append(@, link.receiver_hand),
                                 !.forwarded = Append(@, link.receiver_hand),
                                 !.receiver_hand = NoValue,
                                 !.receiver_pc = "recv"]
               ELSE [link EXCEPT !.receiver_hand = NoValue,
                                 !.receiver_pc = "break"]
    /\ UNCHANGED <<mode, session_and_manager, decoder, viewer, discovery>>

\* after `break`: the task returns and what it owns is dropped
BridgeReceiverExit ==
    /\ mode = "bridge"
    /\ link.receiver_pc = "break"
    /\ link' = [link EXCEPT !.receiver_pc = "done", !.into = drop_sender(@)]
    /\ UNCHANGED <<mode, session_and_manager, decoder, viewer, discovery>>

\* the near session's transport.control.rx.recv() / frames.rx.recv(): the
\* oldest queued message, or None once the queue is empty and no Sender is
\* left
ChannelRecv ==
    /\ mode = "bridge"
    /\ link.into.rx_open
    /\ ~link.closed_seen
    /\ \/ /\ link.into.queue # <<>>
          /\ link' = [link EXCEPT !.into.queue = Tail(@),
                                  !.delivered = Append(@, Head(link.into.queue))]
       \/ /\ link.into.queue = <<>>
          /\ ~link.into.tx_open
          /\ link' = [link EXCEPT !.closed_seen = TRUE]
    /\ UNCHANGED <<mode, session_and_manager, decoder, viewer, discovery>>

\* the near session drops its transport
ChannelRxDrop ==
    /\ mode = "bridge"
    /\ link.into.rx_open
    /\ ~link.closed_seen
    /\ link' = [link EXCEPT !.into.queue = <<>>, !.into.rx_open = FALSE]
    /\ UNCHANGED <<mode, session_and_manager, decoder, viewer, discovery>>

\* ------------------------------------------------------------------------
\* A PeerDiscovery whose owner starts and stops discovery while the mDNS
\* daemon resolves services
\* ------------------------------------------------------------------------
\* what ServiceDaemon::browse does to the receivers of earlier browses of
\* the same service type; the library is free to keep feeding them, to stop
\* feeding them, or to disconnect them
BrowseModes == {"adds", "replaces", "closes"}

\* one Sender of an event channel is dropped
sender_dropped(streams, k) == [streams EXCEPT ![k].senders = @ - 1]

\* start_discovery(): the daemon is created if there is none, a new event
\* channel is made and its Sender stored over the old one, the service type
\* is browsed and a discovery_loop task is spawned over the old handle; the
\* caller gets the new channel's Receiver. When browse() fails the call
\* returns the error after the Sender was stored, and the new channel is left
\* without a Receiver.
start_discovery ==
    /\ mode = "discovery"
    /\ discovery.starts < MaxStarts
    /\ \E library \in BrowseModes, browsing \in BOOLEAN :
         LET k == Len(discovery.streams) + 1
             t == Len(discovery.tasks) + 1
             stored == IF discovery.event_tx = 0 THEN discovery.streams
                       ELSE sender_dropped(discovery.streams, discovery.event_tx)
             earlier == discovery.fed
         IN /\ (earlier = {} \/ ~browsing) => library = "adds"
            /\ discovery' =
                 IF browsing
                 THEN [discovery EXCEPT
                         !.mdns = TRUE,
                         !.event_tx = k,
                         !.streams = Append(stored, [events |-> <<>>, senders |-> 2,
                                                     rx_open |-> TRUE]),
                         !.tasks = Append(
                             [i \in DOMAIN discovery.tasks |->
                                IF i \in earlier /\ library = "closes"
                                THEN [discovery.tasks[i] EXCEPT !.open = FALSE]
                                ELSE discovery.tasks[i]],
                             [inbox |-> <<>>, open |-> TRUE, stream |-> k,
                              state |-> "running"]),
                         !.fed = IF library = "adds" THEN earlier \cup {t} ELSE {t},
                         !.browser_handle = t,
                         !.starts = @ + 1]
                 ELSE [discovery EXCEPT
                         !.mdns = TRUE,
                         !.event_tx = k,
                         !.streams = Append(stored, [events |-> <<>>, senders |-> 1,
                                                     rx_open |-> FALSE]),
                         !.starts = @ + 1]
    /\ UNCHANGED <<mode, session_and_manager, decoder, viewer, link>>

\* addresses a service instance can be resolved to
V4a == SocketAddr("V4", "a")

V4b == SocketAddr("V4", "b")

V6a == SocketAddr("V6", "a")

\* ServiceEvent::ServiceResolved(info): the device_id TXT record as a number
\* and the addresses of the instance
ServiceEvent_ServiceResolved(device_id, addresses) ==
    [event |-> "ServiceResolved", device_id |-> device_id, addresses |-> addresses]

\* ServiceEvent::ServiceRemoved(_, fullname) of the instance remotedesk-<id>
ServiceEvent_ServiceRemoved(device_id) ==
    [event |-> "ServiceRemoved", device_id |-> device_id, addresses |-> <<>>]

\* the instances the daemon resolves: this device's own advertisement, a
\* peer with one or with several addresses, a peer without address, and an
\* instance whose device_id is no device id
ServiceInfos ==
    {ServiceEvent_ServiceResolved(LocalId, <<V4a>>),
     ServiceEvent_ServiceResolved(FirstPeer, <<V4b>>),
     ServiceEvent_ServiceResolved(FirstPeer, <<V6a, V4a>>),
     ServiceEvent_ServiceResolved(FirstPeer, <<>>),
     ServiceEvent_ServiceResolved(NotAnId, <<V4a>>)}

\* every receiver the daemon feeds is given the event
fed_with(d, event) ==
    [d EXCEPT
       !.tasks = [i \in DOMAIN d.tasks |->
                    IF i \in d.fed
                    THEN [d.tasks[i] EXCEPT !.inbox = Append(@, event)]
                    ELSE d.tasks[i]],
       !.resolved = @ + 1]

\* the daemon resolves a service instance and tells every receiver it feeds
ServiceResolved ==
    /\ mode = "discovery"
    /\ discovery.resolved < MaxResolved
    /\ discovery.fed # {}
    /\ \E info \in ServiceInfos : discovery' = fed_with(discovery, info)
    /\ UNCHANGED <<mode, session_and_manager, decoder, viewer, link>>

\* the daemon sees a service instance leave
ServiceRemoved ==
    /\ mode = "discovery"
    /\ discovery.resolved < MaxResolved
    /\ discovery.fed # {}
    /\ \E device_id \in {FirstPeer, LocalId} :
         discovery' = fed_with(discovery, ServiceEvent_ServiceRemoved(device_id))
    /\ UNCHANGED <<mode, session_and_manager, decoder, viewer, link>>

\* the cache was touched by something else than cleanup_stale_peers()
touched(d) == [d EXCEPT !.swept = [done |-> FALSE, removed |-> {}]]

\* handle_service_event without the `device_id == local_id` test
handle_service_event_unfiltered(d, t, event) ==
    LET device_id == event.device_id
        given == touched([d EXCEPT !.handled = @ \cup {device_id}])
    IN  IF event.event = "ServiceResolved"
        THEN IF ~from_u32(device_id).ok THEN given
             ELSE IF event.addresses = <<>> THEN given
             ELSE [given EXCEPT
                     !.peers = insert(@, device_id,
                                      PeerInfo_new(device_id, event.addresses, d.now)),
                     !.streams[d.tasks[t].stream].events =
                         Append(@, IF device_id \notin DOMAIN d.peers
                                   THEN PeerEvent_Discovered(device_id)
                                   ELSE PeerEvent_Updated(device_id))]
        ELSE IF from_u32(device_id).ok /\ device_id \in DOMAIN d.peers
             THEN [given EXCEPT
                     !.peers = remove(@, device_id),
                     !.streams[d.tasks[t].stream].events =
                         Append(@, PeerEvent_Lost(device_id))]
             ELSE given

\* handle_service_event. ServiceResolved: a record without a valid device
\* id, our own record and a record without addresses are skipped; otherwise
\* the PeerInfo is inserted, and the peer is Discovered when it was not in
\* `peers` and Updated when it was. ServiceRemoved: a peer found in `peers`
\* is removed and Lost
handle_service_event(d, t, event) ==
    LET device_id == event.device_id
        given == touched([d EXCEPT !.handled = @ \cup {device_id}])
    IN  IF event.event = "ServiceResolved"
        THEN IF ~from_u32(device_id).ok THEN given
             ELSE IF device_id = LocalId THEN given
             ELSE IF event.addresses = <<>> THEN given
             ELSE [given EXCEPT
                     !.peers = insert(@, device_id,
                                      PeerInfo_new(device_id, event.addresses, d.now)),
                     !.streams[d.tasks[t].stream].events =
                         Append(@, IF device_id \notin DOMAIN d.peers
                                   THEN PeerEvent_Discovered(device_id)
                                   ELSE PeerEvent_Updated(device_id))]
        ELSE IF from_u32(device_id).ok /\ device_id \in DOMAIN d.peers
             THEN [given EXCEPT
                     !.peers = remove(@, device_id),
                     !.streams[d.tasks[t].stream].events =
                         Append(@, PeerEvent_Lost(device_id))]
             ELSE given

\* PeerDiscovery::get_peer
get_peer(d, device_id) ==
    IF device_id \in DOMAIN d.peers
    THEN [some |-> TRUE, peer |-> d.peers[device_id]]
    ELSE [some |-> FALSE]

\* PeerDiscovery::resolve: the addresses of a cached peer that has any
resolve(d, device_id) ==
    IF get_peer(d, device_id).some /\ get_peer(d, device_id).peer.addresses # <<>>
    THEN [some |-> TRUE, addresses |-> get_peer(d, device_id).peer.addresses]
    ELSE [some |-> FALSE, addresses |-> <<>>]

\* one round of discovery_loop: receiver.recv() gives the next service
\* event, or an error once the daemon has dropped the other end, which ends
\* the task and drops its Sender
discovery_loop(t) ==
    /\ mode = "discovery"
    /\ t \in DOMAIN discovery.tasks
    /\ discovery.tasks[t].state = "running"
    /\ \/ /\ discovery.tasks[t].inbox # <<>>
          /\ discovery' =
               [handle_service_event(discovery, t, Head(discovery.tasks[t].inbox))
                  EXCEPT !.tasks[t].inbox = Tail(@)]
       \/ /\ discovery.tasks[t].inbox = <<>>
          /\ ~discovery.tasks[t].open
          /\ discovery' = [discovery EXCEPT
               !.tasks[t].state = "ended",
               !.streams = sender_dropped(@, discovery.tasks[t].stream)]
    /\ UNCHANGED <<mode, session_and_manager, decoder, viewer, link>>

\* stop_discovery(): the task behind browser_handle is aborted and the
\* daemon stops browsing the service type
stop_discovery ==
    /\ mode = "discovery"
    /\ discovery.browser_handle # 0
    /\ LET t == discovery.browser_handle
           running == discovery.tasks[t].state = "running"
       IN discovery' = [discovery EXCEPT
            !.browser_handle = 0,
            !.tasks = [i \in DOMAIN discovery.tasks |->
                         [discovery.tasks[i] EXCEPT
                            !.state = IF i = t /\ running THEN "aborted" ELSE @,
                            !.open = IF i \in discovery.fed THEN FALSE ELSE @]],
            !.streams = IF running
                        THEN sender_dropped(@, discovery.tasks[t].stream)
                        ELSE @,
            !.fed = {}]
    /\ UNCHANGED <<mode, session_and_manager, decoder, viewer, link>>

\* ------------------------------------------------------------------------
\* The peer cache of a PeerDiscovery: peers added and removed by hand,
\* swept with cleanup_stale_peers() and resolved by connect() as time passes
\* ------------------------------------------------------------------------
\* the time that passes between two calls, in seconds: with these steps a
\* peer can be exactly 120 s old, 121 s old, or younger when the cache is swept
Elapses == {60, 61}

\* the address lists a peer is added with
AddressLists == {<<>>, <<V4a>>, <<V6a>>, <<V6a, V4a>>, <<V4a, V6a, V4b>>}

\* time passes
Elapse ==
    /\ mode = "cache"
    /\ \E seconds \in Elapses :
         /\ discovery.now + seconds <= MaxNow
         /\ discovery' = touched([discovery EXCEPT !.now = @ + seconds])
    /\ UNCHANGED <<mode, session_and_manager, decoder, viewer, link>>

\* add_peer(PeerInfo::new(device_id, name, addresses)): inserted over any
\* entry of the same id, without an event
add_peer ==
    /\ mode = "cache"
    /\ \E device_id \in Peers, addresses \in AddressLists :
         discovery' = touched([discovery EXCEPT
             !.peers = insert(@, device_id,
                              PeerInfo_new(device_id, addresses, discovery.now))])
    /\ UNCHANGED <<mode, session_and_manager, decoder, viewer, link>>

\* remove_peer(device_id)
remove_peer ==
    /\ mode = "cache"
    /\ \E device_id \in Peers :
         /\ device_id \in DOMAIN discovery.peers
         /\ discovery' = touched([discovery EXCEPT !.peers = remove(@, device_id)])
    /\ UNCHANGED <<mode, session_and_manager, decoder, viewer, link>>

\* a retain that removes a peer only once it is older than twice the timeout
retain_twice(peers, now) ==
    [id \in {i \in DOMAIN peers : ~(age(peers[i], now) > 2 * STALE_PEER_TIMEOUT_SECS)}
        |-> peers[id]]

\* peers.retain(..): a peer stays unless its age exceeds the timeout
retain(peers, now) ==
    [id \in {i \in DOMAIN peers : ~(age(peers[i], now) > STALE_PEER_TIMEOUT_SECS)}
        |-> peers[id]]

\* cleanup_stale_peers(), under the write lock of `peers`
cleanup_stale_peers ==
    /\ mode = "cache"
    /\ LET kept == retain(discovery.peers, discovery.now)
       IN discovery' = [discovery EXCEPT
            !.peers = kept,
            !.swept = [done |-> TRUE,
                       removed |-> DOMAIN discovery.peers \ DOMAIN kept]]
    /\ UNCHANGED <<mode, session_and_manager, decoder, viewer, link>>

\* connect(): `addresses.and_then(|addrs| addrs.into_iter().next())`, the
\* address handed to endpoint.connect
remote_addr(addresses) ==
    IF addresses.some THEN first_address(addresses.addresses) ELSE [some |-> FALSE]

\* connect(remote_id, ..) from "Resolve peer address" to the address it
\* dials; without an address the call fails with ConnectionFailed
ConnectResolve ==
    /\ mode = "cache"
    /\ \E remote_id \in Peers :
         LET addresses == resolve(discovery, remote_id)
         IN discovery' = [discovery EXCEPT
              !.dialed = <<[remote_id |-> remote_id,
                            peer |-> get_peer(discovery, remote_id),
                            remote_addr |-> remote_addr(addresses)]>>]
    /\ UNCHANGED <<mode, session_and_manager, decoder, viewer, link>>

\* ------------------------------------------------------------------------
\* A SessionManager shared by callers that create sessions side by side
\* ------------------------------------------------------------------------
SessionAlreadyExists(session_id) ==
    [ok |-> FALSE, error |-> "SessionAlreadyExists", session_id |-> session_id]

\* a create call about to run: the session ids it names and the sessions it
\* still has to create, in order, each with its id and type
CreateCall(op, todo) ==
    [op |-> op, named |-> [k \in DOMAIN todo |-> todo[k].session_id], todo |-> todo,
     pc |-> "check", result |-> Waiting]

Creating(session_id, session_type) ==
    [session_id |-> session_id, session_type |-> session_type]

\* create_host_session(config, transport) is called
CallCreateHostSession ==
    /\ mode = "registry"
    /\ Len(registry.calls) < MaxCreates
    /\ \E session_id \in SessionIds :
         registry' = [registry EXCEPT !.calls = Append(@,
             CreateCall("create_host_session", <<Creating(session_id, "Host")>>))]
    /\ UNCHANGED <<mode, all_but_aside, answers, clipboard, capturer, ident>>

\* create_client_session(config, transport) is called
CallCreateClientSession ==
    /\ mode = "registry"
    /\ Len(registry.calls) < MaxCreates
    /\ \E session_id \in SessionIds :
         registry' = [registry EXCEPT !.calls = Append(@,
             CreateCall("create_client_session", <<Creating(session_id, "Client")>>))]
    /\ UNCHANGED <<mode, all_but_aside, answers, clipboard, capturer, ident>>

\* create_loopback_session(host_config, client_config) is called: it runs
\* create_host_session and then create_client_session, and `?` returns the
\* first error
CallCreateLoopbackSession ==
    /\ mode = "registry"
    /\ Len(registry.calls) < MaxCreates
    /\ \E host_id \in SessionIds, client_id \in SessionIds :
         registry' = [registry EXCEPT !.calls = Append(@,
             CreateCall("create_loopback_session",
                        <<Creating(host_id, "Host"), Creating(client_id, "Client")>>))]
    /\ UNCHANGED <<mode, all_but_aside, answers, clipboard, capturer, ident>>

\* create_*_session: `if sessions.contains_key(&session_id)` under the read
\* lock, which is released before the session is built
CheckExisting(i) ==
    /\ mode = "registry"
    /\ i \in DOMAIN registry.calls
    /\ registry.calls[i].pc = "check"
    /\ LET session_id == Head(registry.calls[i].todo).session_id
       IN registry' =
            IF session_id \in DOMAIN registry.sessions
            THEN [registry EXCEPT !.calls[i].pc = "done",
                                  !.calls[i].result = SessionAlreadyExists(session_id)]
            ELSE [registry EXCEPT !.calls[i].pc = "insert"]
    /\ UNCHANGED <<mode, all_but_aside, answers, clipboard, capturer, ident>>

\* create_*_session: `sessions.insert(session_id, ..)` under the write lock;
\* the call returns Ok, or goes on to the next session it has to create
InsertSession(i) ==
    /\ mode = "registry"
    /\ i \in DOMAIN registry.calls
    /\ registry.calls[i].pc = "insert"
    /\ LET creating == Head(registry.calls[i].todo)
           rest == Tail(registry.calls[i].todo)
       IN registry' = [registry EXCEPT
            !.sessions = insert(@, creating.session_id,
                                [session_type |-> creating.session_type, by |-> i]),
            !.calls[i].todo = rest,
            !.calls[i].pc = IF rest = <<>> THEN "done" ELSE "check",
            !.calls[i].result = IF rest = <<>> THEN Ok ELSE @]
    /\ UNCHANGED <<mode, all_but_aside, answers, clipboard, capturer, ident>>

\* ------------------------------------------------------------------------
\* A DeviceId made of a number, written out and read back (security/id.rs)
\* ------------------------------------------------------------------------
\* a string is the sequence of its characters
DigitChars == <<"0", "1", "2", "3", "4", "5", "6", "7", "8", "9">>

IsDigit(c) == \E d \in DOMAIN DigitChars : DigitChars[d] = c

digit_value(c) == (CHOOSE d \in DOMAIN DigitChars : DigitChars[d] = c) - 1

RECURSIVE decimal(_)
\* the decimal digits of a number, most significant first
decimal(n) ==
    IF n < 10 THEN <<DigitChars[n + 1]>>
    ELSE Append(decimal(n \div 10), DigitChars[(n % 10) + 1])

\* format!("{:09}", n): the decimal digits, with zeros in front up to nine
format_09(n) ==
    LET digits == decimal(n)
    IN  [k \in 1..(9 - Len(digits)) |-> "0"] \o digits

\* Display for DeviceId
to_string(id) == format_09(id)

\* DeviceId::format_with_spaces: id_str[0..3], id_str[3..6], id_str[6..9]
\* with a space between them
format_with_spaces(id) ==
    LET id_str == format_09(id)
    IN  SubSeq(id_str, 1, 3) \o <<" ">> \o SubSeq(id_str, 4, 6) \o <<" ">>
            \o SubSeq(id_str, 7, 9)

\* s.replace(' ', "")
replace_spaces(s) == SelectSeq(s, LAMBDA c : c # " ")

RECURSIVE parse_digits(_, _)
\* the digits of str::parse::<u32> after `value`: any other character is an
\* error. A number of 1,000,000,000 or more is told apart only as `big`:
\* whether it still fits a u32 or not, it is no device id
parse_digits(s, value) ==
    IF s = <<>> THEN [ok |-> TRUE, big |-> FALSE, value |-> value]
    ELSE IF ~IsDigit(Head(s)) THEN [ok |-> FALSE, big |-> FALSE, value |-> 0]
    ELSE IF value > DEVICE_ID_MAX \div 10
         THEN [ok |-> \A k \in DOMAIN s : IsDigit(s[k]), big |-> TRUE, value |-> 0]
    ELSE parse_digits(Tail(s), value * 10 + digit_value(Head(s)))

\* str::parse::<u32>: an optional '+', then one digit at least
parse_u32(s) ==
    LET digits == IF s # <<>> /\ Head(s) = "+" THEN Tail(s) ELSE s
    IN  IF digits = <<>> THEN [ok |-> FALSE, big |-> FALSE, value |-> 0]
        ELSE parse_digits(digits, 0)

InvalidDeviceId == [ok |-> FALSE, id |-> 0]

\* from_str that parses the string as it is
from_str_keeping_spaces(s) ==
    LET id == parse_u32(s)
    IN  IF ~id.ok \/ id.big THEN InvalidDeviceId
        ELSE IF from_u32(id.value).ok THEN from_u32(id.value) ELSE InvalidDeviceId

\* FromStr for DeviceId: spaces removed, the rest parsed as a u32 and handed
\* to from_u32
from_str(s) ==
    LET cleaned == replace_spaces(s)
        id == parse_u32(cleaned)
    IN  IF ~id.ok \/ id.big THEN InvalidDeviceId
        ELSE IF from_u32(id.value).ok THEN from_u32(id.value) ELSE InvalidDeviceId

\* the numbers handed to from_u32: the lowest and the highest device ids,
\* one with nine different digits, and numbers that are no device id
Numbers ==
    {DEVICE_ID_MIN + k : k \in 0..MaxOffset}
        \cup {DEVICE_ID_MAX - k : k \in 0..MaxOffset}
        \cup {123456789, NotAnId, 0, DEVICE_ID_MAX + 1}

\* what a user types instead of a written device id
TypedTexts ==
    {<<"1", "2", "3", "4", "5", "6", "7", "8">>,
     <<"a", "b", "c", "1", "2", "3", "4", "5", "6">>,
     <<"1", "2", "3", "4", "5", "6", "7", "8", "9", "0">>,
     <<"+", "1", "2", "3", " ", "4", "5", "6", " ", "7", "8", "9">>,
     <<" ">>}

\* DeviceId::from_u32(n) is called
CallFromU32 ==
    /\ mode = "ident"
    /\ ident = NoDeviceId
    /\ \E n \in Numbers :
         ident' = [n |-> n, id |-> from_u32(n), written |-> "nothing",
                   text |-> <<>>, parsed |-> NoCall]
    /\ UNCHANGED <<mode, all_but_aside, registry, answers, clipboard, capturer>>

\* id.format_with_spaces() is called on a DeviceId
CallFormatWithSpaces ==
    /\ mode = "ident"
    /\ ident # NoDeviceId
    /\ ident.id.ok
    /\ ident.written = "nothing"
    /\ ident' = [ident EXCEPT !.written = "format_with_spaces",
                              !.text = format_with_spaces(ident.id.id)]
    /\ UNCHANGED <<mode, all_but_aside, registry, answers, clipboard, capturer>>

\* id.to_string() is called on a DeviceId
CallToString ==
    /\ mode = "ident"
    /\ ident # NoDeviceId
    /\ ident.id.ok
    /\ ident.written = "nothing"
    /\ ident' = [ident EXCEPT !.written = "to_string",
                              !.text = to_string(ident.id.id)]
    /\ UNCHANGED <<mode, all_but_aside, registry, answers, clipboard, capturer>>

\* a user types a text of their own
TypeText ==
    /\ mode = "ident"
    /\ ident # NoDeviceId
    /\ ident.written = "nothing"
    /\ \E text \in TypedTexts :
         ident' = [ident EXCEPT !.written = "typed", !.text = text]
    /\ UNCHANGED <<mode, all_but_aside, registry, answers, clipboard, capturer>>

\* text.parse::<DeviceId>() is called on what was written
CallFromStr ==
    /\ mode = "ident"
    /\ ident # NoDeviceId
    /\ ident.written # "nothing"
    /\ ident.parsed = NoCall
    /\ ident' = [ident EXCEPT !.parsed = from_str(ident.text)]
    /\ UNCHANGED <<mode, all_but_aside, registry, answers, clipboard, capturer>>

\* ------------------------------------------------------------------------
\* accept_connection and reject_connection as callers running side by side
\* see them: the pending entry is taken under the write lock, the reply is
\* sent after the lock is released
\* ------------------------------------------------------------------------
beside_answers ==
    <<sm, call, session_vars, input, decoder, viewer, link, discovery,
      registry, clipboard, capturer, ident>>

\* pending_conns.get(&connection_id): the entry is looked at and left
pending_get(pending_conns, connection_id) ==
    [some |-> connection_id \in pending_conns, rest |-> pending_conns]

\* pending_conns.remove(&connection_id): the entry, if there is one, and the
\* map without it
pending_remove(pending_conns, connection_id) ==
    [some |-> connection_id \in pending_conns, rest |-> pending_conns \ {connection_id}]

PendingNotFound ==
    Failed("ConnectionFailed", <<"Connection failed: ", "Pending connection not found">>)

\* accept_connection(connection_id) or reject_connection(connection_id, ..)
\* up to `pending.ok_or_else(..)?`
AnswerTake ==
    /\ mode = "manager"
    /\ Len(answers) < MaxAnswers
    /\ \E op \in {"accept_connection", "reject_connection"},
          connection_id \in 1..MaxPeerInbound :
         LET pending == pending_remove(manager.pending_connections, connection_id)
         IN  /\ manager' = [manager EXCEPT !.pending_connections = pending.rest]
             /\ answers' = Append(answers,
                    [op |-> op, connection_id |-> connection_id,
                     found |-> pending.some,
                     pc |-> IF pending.some THEN "send" ELSE "done",
                     sent |-> NoMessage,
                     result |-> IF pending.some THEN Waiting ELSE PendingNotFound])
    /\ UNCHANGED <<mode, beside_answers, inbound, incoming, dials, established>>

\* accept_connection with the pending entry in hand: PendingConnection::accept
\* sends ConnectionAccept with a fresh session id, the connection is recorded
\* under the client's device id, Connected is emitted and the
\* EstablishedConnection returned
AcceptSend(i) ==
    /\ mode = "manager"
    /\ i \in DOMAIN answers
    /\ answers[i].op = "accept_connection"
    /\ answers[i].pc = "send"
    /\ \E session_id \in SessionIds :
         LET id == answers[i].connection_id
             remote_id == inbound[id].first.client_id
         IN  /\ inbound' = [inbound EXCEPT ![id].stage = "established",
                                           ![id].response = ConnectionAccept(session_id)]
             /\ manager' = [manager EXCEPT
                              !.connections = insert(@, remote_id,
                                                     [session_id |-> session_id, role |-> "Host"]),
                              !.events = Append(@, Connected(remote_id))]
             /\ established' = Append(established,
                                      EstablishedConnection(remote_id, session_id, "Host", id))
             /\ answers' = [answers EXCEPT ![i].pc = "done",
                                           ![i].sent = ConnectionAccept(session_id),
                                           ![i].result = Established(session_id)]
    /\ UNCHANGED <<mode, beside_answers, incoming, dials>>

\* reject_connection with the pending entry in hand: PendingConnection::reject
\* sends ConnectionReject and closes
RejectSend(i) ==
    /\ mode = "manager"
    /\ i \in DOMAIN answers
    /\ answers[i].op = "reject_connection"
    /\ answers[i].pc = "send"
    /\ LET id == answers[i].connection_id
       IN  /\ inbound' = [inbound EXCEPT
                            ![id].stage = "rejected",
                            ![id].response = ConnectionReject("UserDenied", None),
                            ![id].closed = TRUE]
           /\ answers' = [answers EXCEPT ![i].pc = "done",
                                         ![i].sent = ConnectionReject("UserDenied", None),
                                         ![i].result = Ok]
    /\ UNCHANGED <<mode, beside_answers, incoming, manager, dials, established>>

\* ------------------------------------------------------------------------
\* A ClipboardMonitor: its polling thread, the local user copying texts and
\* set_content applying remote ones
\* ------------------------------------------------------------------------
beside_clipboard == <<all_but_aside, registry, answers, capturer, ident>>

\* start_monitoring(): a new channel is made, and the call that turns
\* is_running on spawns the polling thread
start_monitoring ==
    /\ mode = "clipboard"
    /\ clipboard.thread.pc \in {"unspawned", "exited"}
    /\ ~clipboard.is_running
    /\ clipboard' = [clipboard EXCEPT !.is_running = TRUE, !.thread.pc = "while",
                                      !.rx_open = TRUE]
    /\ UNCHANGED <<mode, beside_clipboard>>

\* ClipboardMonitor::stop
ClipboardStop ==
    /\ mode = "clipboard"
    /\ clipboard.is_running
    /\ clipboard' = [clipboard EXCEPT !.is_running = FALSE]
    /\ UNCHANGED <<mode, beside_clipboard>>

\* the local user copies a text
LocalCopy ==
    /\ mode = "clipboard"
    /\ clipboard.copies < MaxCopies
    /\ \E text \in Texts :
         clipboard' = [clipboard EXCEPT !.system = ClipboardContent_text(text, "local"),
                                        !.copies = @ + 1]
    /\ UNCHANGED <<mode, beside_clipboard>>

\* apply_remote(transport) -> set_content(content) up to
\* `clipboard.set_text(&text)`
SetContentSetText ==
    /\ mode = "clipboard"
    /\ clipboard.copies < MaxCopies
    /\ clipboard.setting = NoText
    /\ \E text \in Texts :
         LET content == from_transport([data |-> text, content_hash |-> compute_hash(text)])
         IN clipboard' = [clipboard EXCEPT !.system = content,
                                           !.copies = @ + 1,
                                           !.setting = content]
    /\ UNCHANGED <<mode, beside_clipboard>>

\* set_content: `self.last_hash.store(content.hash)` and return
SetContentStoreHash ==
    /\ mode = "clipboard"
    /\ clipboard.setting # NoText
    /\ clipboard' = [clipboard EXCEPT !.last_hash = clipboard.setting.hash,
                                      !.setting = NoText]
    /\ UNCHANGED <<mode, beside_clipboard>>

\* the polling thread: `while is_running.load()`
MonitorWhile ==
    /\ mode = "clipboard"
    /\ clipboard.thread.pc = "while"
    /\ clipboard' = [clipboard EXCEPT
         !.thread.pc = IF clipboard.is_running THEN "get_text" ELSE "exited"]
    /\ UNCHANGED <<mode, beside_clipboard>>

\* the polling thread: `clipboard.get_text()`, an error while the clipboard
\* holds no text; ClipboardContent::text hashes what was read
MonitorGetText ==
    /\ mode = "clipboard"
    /\ clipboard.thread.pc = "get_text"
    /\ clipboard' =
         IF clipboard.system = NoText
         THEN [clipboard EXCEPT !.thread.pc = "while"]
         ELSE [clipboard EXCEPT
                 !.thread.pc = "load",
                 !.thread.content =
                     ClipboardContent_text(clipboard.system.data, clipboard.system.from)]
    /\ UNCHANGED <<mode, beside_clipboard>>

\* the polling thread: `last_hash.load()` and `if content.hash != current_hash`
MonitorLoad ==
    /\ mode = "clipboard"
    /\ clipboard.thread.pc = "load"
    /\ clipboard' =
         IF clipboard.thread.content.hash # clipboard.last_hash
         THEN [clipboard EXCEPT !.thread.pc = "store"]
         ELSE [clipboard EXCEPT !.thread.pc = "while", !.thread.content = NoText]
    /\ UNCHANGED <<mode, beside_clipboard>>

\* the polling thread: `last_hash.store(content.hash)`
MonitorStore ==
    /\ mode = "clipboard"
    /\ clipboard.thread.pc = "store"
    /\ clipboard' = [clipboard EXCEPT !.last_hash = clipboard.thread.content.hash,
                                      !.thread.pc = "send"]
    /\ UNCHANGED <<mode, beside_clipboard>>

\* the polling thread: `tx.blocking_send(content)`, which ends the thread
\* when the receiver is gone
MonitorSend ==
    /\ mode = "clipboard"
    /\ clipboard.thread.pc = "send"
    /\ clipboard' =
         IF clipboard.rx_open
         THEN [clipboard EXCEPT !.reported = Append(@, clipboard.thread.content),
                                !.thread.pc = "while",
                                !.thread.content = NoText]
         ELSE [clipboard EXCEPT !.thread.pc = "exited", !.thread.content = NoText]
    /\ UNCHANGED <<mode, beside_clipboard>>

\* the receiver start_monitoring returned is dropped
ClipboardRxDrop ==
    /\ mode = "clipboard"
    /\ clipboard.rx_open
    /\ clipboard.thread.pc # "unspawned"
    /\ clipboard' = [clipboard EXCEPT !.rx_open = FALSE]
    /\ UNCHANGED <<mode, beside_clipboard>>

\* ------------------------------------------------------------------------
\* A ScreenCapturer: continuous capture started and stopped while the
\* capture thread runs and a consumer reads the frames
\* ------------------------------------------------------------------------
beside_capturer == <<all_but_aside, registry, answers, clipboard, ident>>

\* start_capture(): a channel of 10 frames is made; the call that turns
\* self.is_running on spawns the capture thread and hands it a flag of its
\* own, `Arc::new(AtomicBool::new(true))`
start_capture ==
    /\ mode = "capturer"
    /\ capturer.thread.pc \in {"unspawned", "exited"}
    /\ ~capturer.is_running
    /\ capturer' = [capturer EXCEPT
         !.is_running = TRUE,
         !.thread = [pc |-> "init", is_running |-> TRUE, consecutive_failures |-> 0],
         !.queued = 0,
         !.rx_open = TRUE,
         !.stopped = FALSE]
    /\ UNCHANGED <<mode, beside_capturer>>

\* stop_capture(): `self.is_running.store(false)`
stop_capture ==
    /\ mode = "capturer"
    /\ capturer.thread.pc # "unspawned"
    /\ ~capturer.stopped
    /\ capturer' = [capturer EXCEPT !.is_running = FALSE, !.stopped = TRUE]
    /\ UNCHANGED <<mode, beside_capturer>>

\* the capture thread: get_display and Capturer::new, either of which can
\* fail and end the thread
CaptureThreadInit ==
    /\ mode = "capturer"
    /\ capturer.thread.pc = "init"
    /\ \E created \in BOOLEAN :
         capturer' = [capturer EXCEPT !.thread.pc = IF created THEN "while" ELSE "exited"]
    /\ UNCHANGED <<mode, beside_capturer>>

\* the capture thread: `while is_running_clone.load()`, the flag the thread
\* was given
CaptureThreadWhile ==
    /\ mode = "capturer"
    /\ capturer.thread.pc = "while"
    /\ capturer' = [capturer EXCEPT
         !.thread.pc = IF capturer.thread.is_running THEN "capture" ELSE "exited"]
    /\ UNCHANGED <<mode, beside_capturer>>

\* the capture thread: capture_single_frame_blocking; a frame resets
\* consecutive_failures, an error counts and ends the thread at
\* MAX_CONSECUTIVE_FAILURES
CaptureThreadFrame ==
    /\ mode = "capturer"
    /\ capturer.thread.pc = "capture"
    /\ \E captured \in BOOLEAN :
         capturer' =
           IF captured
           THEN [capturer EXCEPT !.thread.consecutive_failures = 0,
                                 !.thread.pc = "send"]
           ELSE [capturer EXCEPT
                   !.thread.consecutive_failures = @ + 1,
                   !.thread.pc =
                       IF capturer.thread.consecutive_failures + 1 >= MAX_CONSECUTIVE_FAILURES
                       THEN "exited" ELSE "while"]
    /\ UNCHANGED <<mode, beside_capturer>>

\* the capture thread: `tx.blocking_send(frame)` waits for room in the
\* channel and ends the thread when the Receiver is gone
CaptureThreadSend ==
    /\ mode = "capturer"
    /\ capturer.thread.pc = "send"
    /\ \/ /\ ~capturer.rx_open
          /\ capturer' = [capturer EXCEPT !.thread.pc = "exited"]
       \/ /\ capturer.rx_open
          /\ capturer.queued < CAPTURE_CHANNEL_CAPACITY
          /\ capturer' = [capturer EXCEPT !.queued = @ + 1, !.thread.pc = "while"]
    /\ UNCHANGED <<mode, beside_capturer>>

\* the consumer takes a frame from the Receiver
CaptureRecv ==
    /\ mode = "capturer"
    /\ capturer.rx_open
    /\ capturer.queued > 0
    /\ capturer' = [capturer EXCEPT !.queued = @ - 1]
    /\ UNCHANGED <<mode, beside_capturer>>

\* the consumer drops the Receiver
CaptureRxDrop ==
    /\ mode = "capturer"
    /\ capturer.thread.pc # "unspawned"
    /\ capturer.rx_open
    /\ capturer' = [capturer EXCEPT !.rx_open = FALSE, !.queued = 0]
    /\ UNCHANGED <<mode, beside_capturer>>

Next ==
    \/ CallTransition
    \/ CallForceTransition
    \/ CallReset
    \/ start
    \/ stop
    \/ pause
    \/ resume
    \/ \E w \in {"input", "control", "frame_receiver"} : PollingWorker(w)
    \/ CaptureInit
    \/ CaptureLoop
    \/ CaptureCheckState
    \/ CaptureFrame
    \/ CaptureEncode
    \/ CaptureSend
    \/ FrameRecv
    \/ FrameRxDrop

\* a bare state machine, a host session or a client session; the session
\* transport is a loopback transport
Spec == Init /\ [][Next]_vars

\* ------------------------------------------------------------------------
\* A host session over either transport, from start() to stop()
\* ------------------------------------------------------------------------
NetInit ==
    /\ mode = "host"
    /\ sm = new
    /\ call = NoCall
    /\ is_running = FALSE
    /\ wpc = [w \in Workers |-> "unspawned"]
    /\ frame_sequence = 0
    /\ cap = [hand |-> NoFrame, consecutive_failures |-> 0]
    /\ stats = [frames_sent |-> 0, frames_dropped |-> 0]
    /\ frames = channel
    /\ transport \in {"loopback", "quic"}
    /\ bridge = [out_pc |-> IF transport = "quic" THEN "recv" ELSE "unspawned",
                 in_pc |-> IF transport = "quic" THEN "recv" ELSE "unspawned",
                 out_hand |-> NoFrame, in_hand |-> NoFrame]
    /\ stream = [data |-> <<>>, open |-> TRUE]
    /\ frames_in = channel
    /\ received = <<>>
    /\ OutsideIdle

NetNext ==
    \/ start
    \/ stop
    \/ CaptureInit
    \/ CaptureLoop
    \/ CaptureCheckState
    \/ CaptureFrame
    \/ CaptureEncode
    \/ CaptureSend
    \/ BridgeOutRecv
    \/ BridgeOutSend
    \/ BridgeInRecv
    \/ BridgeInSend
    \/ ConnectionLost
    \/ FrameRecv
    \/ FrameRecvNet
    \/ FrameRxDrop

NetSpec == NetInit /\ [][NetNext]_vars

\* ------------------------------------------------------------------------
\* A host session over a loopback transport, with the scheduling its workers
\* have: the capture worker is a thread of its own and the polling workers
\* are tasks of the runtime, so each takes its next step when it has one.
\* Nothing obliges the holder of frames.rx to read.
\* ------------------------------------------------------------------------
LiveInit ==
    /\ Init
    /\ mode = "host"

LiveNext ==
    \/ start
    \/ stop
    \/ \E w \in {"input", "control"} : PollingWorker(w)
    \/ CaptureInit
    \/ CaptureLoop
    \/ CaptureCheckState
    \/ CaptureFrame
    \/ CaptureEncode
    \/ CaptureSend
    \/ FrameRecv

WorkerFairness ==
    /\ \A w \in {"input", "control"} : WF_vars(PollingWorker(w))
    /\ WF_vars(CaptureInit)
    /\ WF_vars(CaptureLoop)
    /\ WF_vars(CaptureCheckState)
    /\ WF_vars(CaptureFrame)
    /\ WF_vars(CaptureEncode)
    /\ WF_vars(CaptureSend)

LiveSpec == LiveInit /\ [][LiveNext]_vars /\ WorkerFairness

\* ------------------------------------------------------------------------
\* The input channel of a loopback transport with its producers (a caller
\* awaiting send, ClientSession::send_input, the viewer) and its consumer
\* ------------------------------------------------------------------------
\* a session that was never constructed
SessionIdle ==
    /\ sm = new
    /\ call = NoCall
    /\ is_running = FALSE
    /\ wpc = [w \in Workers |-> "unspawned"]
    /\ frame_sequence = 0
    /\ cap = [hand |-> NoFrame, consecutive_failures |-> 0]
    /\ stats = [frames_sent |-> 0, frames_dropped |-> 0]
    /\ frames = channel
    /\ transport = "loopback"
    /\ bridge = [out_pc |-> "unspawned", in_pc |-> "unspawned",
                 out_hand |-> NoFrame, in_hand |-> NoFrame]
    /\ stream = [data |-> <<>>, open |-> TRUE]
    /\ frames_in = channel
    /\ received = <<>>

InputInit ==
    /\ mode = "transport"
    /\ SessionIdle
    /\ OutsideIdle

InputNext ==
    \/ InputSendAwait
    \/ send_input
    \/ viewer_send_input
    \/ InputRecv
    \/ InputRxDrop

InputSpec == InputInit /\ [][InputNext]_vars

\* ------------------------------------------------------------------------
\* A started ConnectionManager facing clients of any make: what arrives on
\* the control substream is whatever a client can write
\* ------------------------------------------------------------------------
HandshakeInit ==
    /\ mode = "listener"
    /\ SessionIdle
    /\ input = input_channel
    /\ inbound = <<>>
    /\ incoming = <<>>
    /\ \E password_set \in BOOLEAN :
         manager = ConnectionManager_new(ManagerConfig_new(password_set))
    /\ dials = <<>>
    /\ established = <<>>
    /\ ApartIdle

HandshakeNext ==
    \/ ListenerAccept
    \/ \E id \in 1..MaxInbound : HandleIncoming(id)
    \/ ManagerAdmit
    \/ accept_connection
    \/ reject_connection
    \/ \E id \in 1..MaxInbound : ClientResponse(id)

HandshakeSpec == HandshakeInit /\ [][HandshakeNext]_vars

\* ------------------------------------------------------------------------
\* A started ConnectionManager among peers running this program: peers
\* connect to it while the embedding program calls connect() and resolves
\* the pending queue
\* ------------------------------------------------------------------------
ManagerInit ==
    /\ mode = "manager"
    /\ SessionIdle
    /\ input = input_channel
    /\ inbound = <<>>
    /\ incoming = <<>>
    /\ \E max \in 1..2 :
         manager = ConnectionManager_new(ManagerConfig(max, FALSE))
    /\ dials = <<>>
    /\ established = <<>>
    /\ ApartIdle

ManagerNext ==
    \/ ListenerAccept
    \/ \E id \in 1..MaxPeerInbound : HandleIncoming(id)
    \/ ManagerAdmit
    \/ accept_connection
    \/ reject_connection
    \/ \E id \in 1..MaxPeerInbound : ClientResponse(id)
    \/ Connect
    \/ \E i \in 1..MaxDials : ConnectCheckConnected(i)
    \/ \E i \in 1..MaxDials : ConnectCheckMax(i)
    \/ \E i \in 1..MaxDials : ConnectHandshake(i)

ManagerSpec == ManagerInit /\ [][ManagerNext]_vars

\* ------------------------------------------------------------------------
\* A manager among peers whose established connections can lose their
\* transport. The handler tasks, the incoming task and the connect() calls
\* in progress run when they can; nothing obliges the embedding program to
\* call accept_connection, connect or disconnect
\* ------------------------------------------------------------------------
ClosureNext ==
    \/ ListenerAccept
    \/ \E id \in 1..MaxPeerInbound : HandleIncoming(id)
    \/ ManagerAdmit
    \/ accept_connection
    \/ Connect
    \/ \E i \in 1..MaxDials : ConnectCheckConnected(i)
    \/ \E i \in 1..MaxDials : ConnectCheckMax(i)
    \/ \E i \in 1..MaxDials : ConnectHandshake(i)
    \/ TransportClosed
    \/ disconnect

ClosureFairness ==
    /\ \A id \in 1..MaxPeerInbound : WF_vars(HandleIncoming(id))
    /\ WF_vars(ManagerAdmit)
    /\ \A i \in 1..MaxDials : WF_vars(ConnectCheckConnected(i))
    /\ \A i \in 1..MaxDials : WF_vars(ConnectCheckMax(i))
    /\ \A i \in 1..MaxDials : WF_vars(ConnectHandshake(i))

ClosureSpec == ManagerInit /\ [][ClosureNext]_vars /\ ClosureFairness

\* ------------------------------------------------------------------------
\* A FrameDecoder fed frames of any sequence number, decodable or not
\* ------------------------------------------------------------------------
DecoderInit ==
    /\ mode = "decoder"
    /\ SessionIdle
    /\ OutsideIdle

DecoderNext ==
    \/ CallDecode
    \/ CallDecodeTransport
    \/ CallResetStats

DecoderSpec == DecoderInit /\ [][DecoderNext]_vars

\* ------------------------------------------------------------------------
\* A ViewerWindow whose update ticks interleave with the arrival of frames
\* ------------------------------------------------------------------------
ViewerInit ==
    /\ mode = "viewer"
    /\ SessionIdle
    /\ OutsideIdle

ViewerNext ==
    \/ FrameArrives
    \/ process_pending_frames

ViewerSpec == ViewerInit /\ [][ViewerNext]_vars

\* no session, no manager, no decoder, no viewer, no discovery
OnlyLink ==
    /\ SessionIdle
    /\ input = input_channel
    /\ inbound = <<>>
    /\ incoming = <<>>
    /\ manager = ConnectionManager_new(ManagerConfig_new(FALSE))
    /\ dials = <<>>
    /\ established = <<>>
    /\ decoder = FrameDecoder_new
    /\ viewer = ViewerWindow_new
    /\ discovery = PeerDiscovery_new
    /\ AsideIdle

\* ------------------------------------------------------------------------
\* One substream between a StreamSender and a StreamReceiver, as the
\* connection tests use them
\* ------------------------------------------------------------------------
StreamInit ==
    /\ mode = "stream"
    /\ OnlyLink
    /\ link = SubstreamLink("typed", "program", "unspawned")

StreamNext ==
    \/ StreamSend
    \/ StreamRecv
    \/ StreamFinish
    \/ SubstreamLost

StreamSpec == StreamInit /\ [][StreamNext]_vars

\* ------------------------------------------------------------------------
\* One substream of a networked transport between the bridge that feeds it
\* and the bridge that drains it: a typed substream, or the control
\* substream facing this program or a peer of any make. The bridges are
\* tasks of the runtime and take their next step when they have one; nothing
\* obliges a session to read its queue.
\* ------------------------------------------------------------------------
BridgeInit ==
    /\ mode = "bridge"
    /\ OnlyLink
    /\ link \in {SubstreamLink("typed", "program", "recv"),
                 SubstreamLink("control", "program", "recv"),
                 SubstreamLink("control", "any", "recv")}

BridgeNext ==
    \/ ChannelPut
    \/ PeerWrites
    \/ BridgeSenderRecv
    \/ BridgeSenderSend
    \/ StreamFinish
    \/ SubstreamLost
    \/ BridgeReceiverRecv
    \/ BridgeReceiverSend
    \/ BridgeReceiverExit
    \/ ChannelRecv
    \/ ChannelRxDrop

BridgeFairness ==
    /\ WF_vars(BridgeSenderRecv)
    /\ WF_vars(BridgeSenderSend)
    /\ WF_vars(BridgeReceiverRecv)
    /\ WF_vars(BridgeReceiverSend)
    /\ WF_vars(BridgeReceiverExit)

BridgeSpec == BridgeInit /\ [][BridgeNext]_vars /\ BridgeFairness

\* ------------------------------------------------------------------------
\* A PeerDiscovery from new(): discovery started, started again, stopped
\* ------------------------------------------------------------------------
DiscoveryInit ==
    /\ mode = "discovery"
    /\ SessionIdle
    /\ OutsideIdle

DiscoveryNext ==
    \/ start_discovery
    \/ ServiceResolved
    \/ ServiceRemoved
    \/ \E t \in 1..MaxStarts : discovery_loop(t)
    \/ stop_discovery

DiscoverySpec == DiscoveryInit /\ [][DiscoveryNext]_vars

\* ------------------------------------------------------------------------
\* A PeerDiscovery whose owner starts discovery once and may stop it, while
\* the daemon resolves and loses service instances
\* ------------------------------------------------------------------------
StartOnce ==
    /\ discovery.starts = 0
    /\ start_discovery

BrowseNext ==
    \/ StartOnce
    \/ ServiceResolved
    \/ ServiceRemoved
    \/ \E t \in 1..MaxStarts : discovery_loop(t)
    \/ stop_discovery

BrowseSpec == DiscoveryInit /\ [][BrowseNext]_vars

\* ------------------------------------------------------------------------
\* A PeerDiscovery from new() used as a peer cache
\* ------------------------------------------------------------------------
CacheInit ==
    /\ mode = "cache"
    /\ SessionIdle
    /\ OutsideIdle

CacheNext ==
    \/ Elapse
    \/ add_peer
    \/ remove_peer
    \/ cleanup_stale_peers
    \/ ConnectResolve

CacheSpec == CacheInit /\ [][CacheNext]_vars

\* ------------------------------------------------------------------------
\* A SessionManager from new() whose callers create host, client and
\* loopback sessions, one after another or at the same time
\* ------------------------------------------------------------------------
RegistryInit ==
    /\ mode = "registry"
    /\ SessionIdle
    /\ OutsideIdle

RegistryNext ==
    \/ CallCreateHostSession
    \/ CallCreateClientSession
    \/ CallCreateLoopbackSession
    \/ \E i \in 1..MaxCreates : CheckExisting(i)
    \/ \E i \in 1..MaxCreates : InsertSession(i)

RegistrySpec == RegistryInit /\ [][RegistryNext]_vars

\* ------------------------------------------------------------------------
\* Numbers made into DeviceIds, written with format_with_spaces or
\* to_string, and any text parsed back
\* ------------------------------------------------------------------------
IdentInit ==
    /\ mode = "ident"
    /\ SessionIdle
    /\ OutsideIdle

IdentNext ==
    \/ CallFromU32
    \/ CallFormatWithSpaces
    \/ CallToString
    \/ TypeText
    \/ CallFromStr

IdentSpec == IdentInit /\ [][IdentNext]_vars

\* ------------------------------------------------------------------------
\* A started ConnectionManager whose pending connections are answered by
\* several callers at the same time
\* ------------------------------------------------------------------------
PendingNext ==
    \/ ListenerAccept
    \/ \E id \in 1..MaxPeerInbound : HandleIncoming(id)
    \/ ManagerAdmit
    \/ AnswerTake
    \/ \E i \in 1..MaxAnswers : AcceptSend(i)
    \/ \E i \in 1..MaxAnswers : RejectSend(i)

PendingSpec == ManagerInit /\ [][PendingNext]_vars

\* ------------------------------------------------------------------------
\* A ClipboardMonitor from new(): monitoring started, texts copied locally
\* and applied from the remote side while the polling thread runs
\* ------------------------------------------------------------------------
ClipboardInit ==
    /\ mode = "clipboard"
    /\ SessionIdle
    /\ OutsideIdle

ClipboardNext ==
    \/ start_monitoring
    \/ ClipboardStop
    \/ LocalCopy
    \/ SetContentSetText
    \/ SetContentStoreHash
    \/ MonitorWhile
    \/ MonitorGetText
    \/ MonitorLoad
    \/ MonitorStore
    \/ MonitorSend
    \/ ClipboardRxDrop

ClipboardSpec == ClipboardInit /\ [][ClipboardNext]_vars

\* ------------------------------------------------------------------------
\* A ScreenCapturer from new(). The capture thread is a thread of the
\* operating system and takes its next step when it has one; the consumer
\* keeps reading while it holds the Receiver. Nothing obliges anybody to
\* call start_capture or stop_capture, or to drop the Receiver
\* ------------------------------------------------------------------------
CapturerInit ==
    /\ mode = "capturer"
    /\ SessionIdle
    /\ OutsideIdle

CapturerNext ==
    \/ start_capture
    \/ stop_capture
    \/ CaptureThreadInit
    \/ CaptureThreadWhile
    \/ CaptureThreadFrame
    \/ CaptureThreadSend
    \/ CaptureRecv
    \/ CaptureRxDrop

CapturerFairness ==
    /\ WF_vars(CaptureThreadInit)
    /\ WF_vars(CaptureThreadWhile)
    /\ WF_vars(CaptureThreadFrame)
    /\ WF_vars(CaptureThreadSend)
    /\ WF_vars(CaptureRecv)

CapturerSpec == CapturerInit /\ [][CapturerNext]_vars /\ CapturerFairness

\* ------------------------------------------------------------------------
\* Properties
\* ------------------------------------------------------------------------
AllAllowed(edges) ==
    \A i \in DOMAIN edges : edges[i].to \in valid_transitions(edges[i].from)

Exited(w) == wpc[w] \in {"unspawned", "done"}

\* C1: transition(to) with `to` outside the allowed successors of the current
\* state returns InvalidStateTransition{from, to}, takes no edge and leaves
\* the current state as it was.
C1_InvalidTransitionRejected ==
    (call.op = "transition" /\ call.arg \notin valid_transitions(call.from))
        => /\ call.res = InvalidStateTransition(call.from, call.arg)
           /\ call.took = <<>>
           /\ sm.current = call.from

\* C1 witness: from Idle, transition(Active) has failed and the state is Idle.
C1_Witness ==
    /\ call.op = "transition"
    /\ call.from = Idle
    /\ call.arg = Active
    /\ call.res = InvalidStateTransition(Idle, Active)
    /\ sm.current = Idle

\* C2 as stated: every transition a state machine has taken and recorded,
\* through whatever operation, follows the transition table.
C2_EveryTakenEdgeAllowed == AllAllowed(sm.history)

\* C2 amended: the edges taken by transition() and by a session's start,
\* stop, pause and resume follow the table, and so does the whole history of
\* a session's machine; only a direct force_transition call is exempt.
C2_TakenEdgesAllowedExceptForced ==
    /\ call.op # "force_transition" => AllAllowed(call.took)
    /\ mode \in {"host", "client"} => AllAllowed(sm.history)

\* C2 witness: a host session that was started, paused, resumed and stopped.
C2_Witness ==
    /\ mode = "host"
    /\ call.op = "stop"
    /\ call.from = Active
    /\ PauseCount(sm.history) = 1
    /\ Len(sm.history) = 7

\* C3 as stated: once the current state is Disconnected no operation moves
\* the machine to another state.
C3_DisconnectedTerminal ==
    [][sm.current = Disconnected => sm'.current = Disconnected]_vars

\* C3 amended: once the current state is Disconnected it stays Disconnected
\* under transition() and under a session's start, stop, pause and resume;
\* force_transition and reset are the operations that leave it.
C3_DisconnectedTerminalExceptForcedOrReset ==
    [][(sm.current = Disconnected /\ call'.op \notin {"force_transition", "reset"})
          => sm'.current = Disconnected]_vars

\* C3 witness: a transition asked of a Disconnected machine was refused.
C3_Witness ==
    /\ call.op = "transition"
    /\ call.from = Disconnected
    /\ call.arg = Connecting
    /\ ~call.res.ok
    /\ sm.current = Disconnected

\* C4: after stop() the session is Disconnected with is_running false, and
\* when the state stop() found allows Disconnecting, the edges it took are
\* that state -> Disconnecting -> Disconnected.
C4_StopDisconnects ==
    call.op = "stop"
        => /\ ~is_running
           /\ sm.current = Disconnected
           /\ Disconnecting \in valid_transitions(call.from)
                 => call.took = <<StateTransition(call.from, Disconnecting),
                                  StateTransition(Disconnecting, Disconnected)>>

\* C4 witness: stop() called on a paused session whose workers are running.
C4_Witness ==
    /\ call.op = "stop"
    /\ call.from = Paused
    /\ sm.current = Disconnected
    /\ ~is_running
    /\ wpc["control"] = "loop"

\* C5: once stop() has cleared is_running, every worker that start() spawned
\* eventually exits.
C5_WorkersExitAfterStop ==
    (call.op = "stop" /\ ~is_running) ~> (\A w \in Workers : Exited(w))

\* C6: a frame is pushed into frames.tx only while the session is Active.
C6_PushOnlyWhileActive ==
    [][Len(frames'.queue) > Len(frames.queue) => sm.current = Active]_vars

\* C7: start() on an Idle session succeeds, takes exactly
\* Idle -> Connecting -> Authenticating -> Active, and leaves the session
\* Active with is_running true.
C7_StartPath ==
    (call.op = "start" /\ call.from = Idle)
        => /\ call.res = Ok
           /\ call.took = <<StateTransition(Idle, Connecting),
                            StateTransition(Connecting, Authenticating),
                            StateTransition(Authenticating, Active)>>
           /\ sm.current = Active
           /\ is_running

\* C7 witness: a client session just started from Idle, its workers spawned.
C7_Witness ==
    /\ mode = "client"
    /\ call.op = "start"
    /\ call.from = Idle
    /\ sm.current = Active
    /\ wpc["frame_receiver"] = "loop"

\* C8: neither frames queue of a session transport, the host-side one or the
\* client-side one of a networked transport, ever holds more than
\* FRAME_CHANNEL_BUFFER frames.
C8_QueueDepthBounded ==
    /\ Len(frames.queue) <= FRAME_CHANNEL_BUFFER
    /\ Len(frames_in.queue) <= FRAME_CHANNEL_BUFFER

\* C8 witness: the client-side queue of a networked transport is full while
\* its bridge holds the next frame, and the host-side queue is not empty.
C8_Witness ==
    /\ transport = "quic"
    /\ Len(frames_in.queue) = FRAME_CHANNEL_BUFFER
    /\ bridge.in_pc = "send"

\* C9: a capture worker that holds a frame and finds the frames queue full
\* does not stay waiting for room: it gets rid of the frame (dropping it and
\* counting it in frames_dropped) even if nobody drains the queue.
C9_DropsInsteadOfWaiting ==
    (wpc["capture"] = "send" /\ frames.rx_open /\ ~has_room(frames))
        ~> (wpc["capture"] # "send")

\* C10: the sequence numbers received on the client's frames channel are
\* strictly increasing.
C10_ReceivedStrictlyIncreasing ==
    \A i, j \in DOMAIN received : i < j => received[i] < received[j]

\* C10 witness: the client has received frames with a gap between them during
\* a session that was paused and resumed, and all frames were captured.
C10_Witness ==
    /\ Len(received) >= 3
    /\ \E i \in DOMAIN received :
          i + 1 \in DOMAIN received /\ received[i + 1] > received[i] + 1
    /\ PauseCount(sm.history) = 1
    /\ sm.current = Active
    /\ frame_sequence = MaxSeq

IsPrefix(a, b) == Len(a) <= Len(b) /\ a = SubSeq(b, 1, Len(a))

\* C11: the host takes input events off the input channel in exactly the
\* order the client put them on it, none lost and none twice: what the host
\* received is always the beginning of what was sent, and while the host
\* holds its receiver everything sent is either received or still queued in
\* order
C11_InputOrderPreserved ==
    mode = "transport" =>
        /\ IsPrefix(input.received, input.sent)
        /\ input.rx_open => input.sent = input.received \o input.queue

\* six events were sent and the host has received all six
C11_Witness ==
    /\ mode = "transport"
    /\ Len(input.sent) = 6
    /\ input.received = input.sent
    /\ input.discarded = <<>>

\* C12: no input event is discarded because the queue is full (the producer
\* waits for room instead)
C12_NothingDiscardedOnFull ==
    mode = "transport" => input.discarded = <<>>

\* helpers for the handshake properties
IsRequest(c) == c.first.type = "ConnectionRequest"

\* the handler, and the incoming task if the handler forwarded, are done with c
Decided(c) == c.stage \notin {"handshake", "incoming"}

\* a ConnectionRequest event was emitted for connection id
Announced(id) ==
    \E i \in DOMAIN manager.events :
        /\ manager.events[i].event = "ConnectionRequest"
        /\ manager.events[i].connection_id = id

\* connection id is, or once was, in pending_connections
Enqueued(id) ==
    \/ id \in manager.pending_connections
    \/ inbound[id].stage \in {"pending", "established"}
    \/ inbound[id].response = ConnectionReject("UserDenied", None)

Contains(text, token) == \E i \in DOMAIN text : text[i] = token

Eligible(r) ==
    /\ r.protocol_version = CURRENT_PROTOCOL_VERSION
    /\ r.host_id = LocalId
    /\ is_password_set(manager.config) => r.password_hash # NoHash

MatchingReasons(r) ==
    {x \in RejectReason :
        \/ x = "UnsupportedVersion" /\ r.protocol_version # CURRENT_PROTOCOL_VERSION
        \/ x = "InvalidId" /\ r.host_id # LocalId
        \/ x = "InvalidPassword" /\ is_password_set(manager.config)
                                 /\ r.password_hash = NoHash}

C14_BadHashNeverEnqueued ==
    mode = "listener" =>
        \A id \in DOMAIN inbound :
            LET c == inbound[id]
            IN  (/\ IsRequest(c)
                 /\ is_password_set(manager.config)
                 /\ c.first.password_hash # NoHash
                 /\ ~verify_password(c.first.password_hash, password_hash_file)) =>
                    /\ ~Enqueued(id)
                    /\ ~Announced(id)
                    /\ c.stage # "established"
                    /\ Decided(c) => (c.response.type = "ConnectionReject" /\ c.closed)

\* C15: a request with another protocol version is answered with
\* ConnectionReject{UnsupportedVersion, "Expected <current>, got <version>"},
\* the host closes the connection, and the client's connect returns an error
\* containing "UnsupportedVersion"
C15_VersionMismatchRejected ==
    mode = "listener" =>
        \A id \in DOMAIN inbound :
            LET c == inbound[id]
            IN  (/\ IsRequest(c)
                 /\ c.first.protocol_version # CURRENT_PROTOCOL_VERSION
                 /\ Decided(c)) =>
                    /\ c.response = ConnectionReject("UnsupportedVersion",
                           Some(<<"Expected ", ToString(CURRENT_PROTOCOL_VERSION),
                                  ", got ", ToString(c.first.protocol_version)>>))
                    /\ c.closed
                    /\ c.client.done =>
                           (~c.client.ok /\ Contains(c.client.text, "UnsupportedVersion"))

\* C16: a connection whose first message is not a ConnectionRequest is
\* closed by the host, is never enqueued as pending and no ConnectionRequest
\* event is emitted for it
C16_NonRequestClosed ==
    mode = "listener" =>
        \A id \in DOMAIN inbound :
            LET c == inbound[id]
            IN  ~IsRequest(c) =>
                    /\ ~Enqueued(id)
                    /\ ~Announced(id)
                    /\ \A i \in DOMAIN incoming : incoming[i].connection_id # id
                    /\ c.stage \in {"handshake", "failed"}
                    /\ c.stage = "failed" => c.closed

\* the handler has read a first message that is no request and the
\* connection is closed
C16_Witness ==
    /\ mode = "listener"
    /\ \E id \in DOMAIN inbound :
         /\ inbound[id].first = Heartbeat
         /\ inbound[id].stage = "failed"
         /\ inbound[id].closed
         /\ inbound[id].client.done

\* C17: after a successful handshake the session id the client keeps is the
\* one the host generated for that connection
C17_SameSessionId ==
    mode = "listener" =>
        \A id \in DOMAIN inbound :
            inbound[id].client.ok =>
                /\ \E i \in DOMAIN established : established[i].connection_id = id
                /\ \A i \in DOMAIN established :
                       established[i].connection_id = id =>
                           established[i].session_id = inbound[id].client.session_id

\* a client completed its handshake and holds the session id the host drew
C17_Witness ==
    /\ mode = "listener"
    /\ \E id \in DOMAIN inbound :
         /\ inbound[id].client.ok
         /\ inbound[id].client.session_id = "sid_b"
         /\ inbound[id].stage = "established"

\* C18: the manager never records more connections than max_connections
C18_MaxConnectionsEnforced ==
    mode = "manager" =>
        Cardinality(DOMAIN manager.connections) <= manager.config.max_connections

\* C19: no two connections made by connect() to the same device id coexist
C19_OneHandshakePerDevice ==
    mode = "manager" =>
        \A i, j \in DOMAIN established :
            (/\ i # j
             /\ established[i].role = "Client"
             /\ established[j].role = "Client") =>
                established[i].remote_device_id # established[j].remote_device_id

\* C20: ConnectionRequest events are emitted in strictly ascending
\* connection_id order
C20_EventsInConnectionOrder ==
    mode = "listener" =>
        \A i, j \in DOMAIN manager.events :
            (/\ i < j
             /\ manager.events[i].event = "ConnectionRequest"
             /\ manager.events[j].event = "ConnectionRequest") =>
                manager.events[i].connection_id < manager.events[j].connection_id

\* the manager no longer records a connection to the device and has emitted
\* exactly one Disconnected event for it
ReportedDisconnected(remote_id) ==
    /\ remote_id \notin DOMAIN manager.connections
    /\ Cardinality({k \in DOMAIN manager.events :
                        /\ manager.events[k].event = "Disconnected"
                        /\ manager.events[k].remote_id = remote_id}) = 1

\* C21: when the transport of an established connection closes, the manager
\* moves the connection to Disconnected and emits exactly one Disconnected
\* event for it
C21_ClosedTransportReported ==
    (\E i \in DOMAIN established : ~established[i].transport_open)
        ~> (\A i \in DOMAIN established :
                ~established[i].transport_open =>
                    ReportedDisconnected(established[i].remote_device_id))

\* the sequence numbers of the frames decoded successfully, in arrival order
Decoded == SelectSeq(decoder.seen, LAMBDA f : f.ok)

\* expected_1 = 1 and expected_{i+1} = s_i + 1
Expected(s, i) == IF i = 1 THEN 1 ELSE s[i - 1].sequence + 1

DrainsFrames == viewer.frame_rx # <<>> /\ viewer'.frame_rx = <<>>

\* C23 as stated: an update tick that drains n >= 1 frames decodes and
\* displays the most recently received of them and no other, and
\* frames_dropped grows by n - 1.
C23_LatestShownOthersDropped ==
    [][DrainsFrames =>
         LET n == Len(viewer.frame_rx)
             latest == viewer.frame_rx[n]
         IN /\ Len(decoder'.seen) = Len(decoder.seen) + 1
            /\ decoder'.seen[Len(decoder'.seen)].sequence = latest.sequence
            /\ decoder'.seen[Len(decoder'.seen)].ok
            /\ viewer'.texture = latest.sequence
            /\ viewer'.stats.frames_displayed = viewer.stats.frames_displayed + 1
            /\ viewer'.stats.frames_dropped = viewer.stats.frames_dropped + (n - 1)]_vars

\* C23, amended: an update tick that drains n >= 1 frames hands the most
\* recently received of them, and no other, to the decoder. If it decodes, it
\* is displayed and frames_dropped grows by n - 1; if it does not, the
\* display keeps the frame it had and frames_dropped grows by n.
C23_LatestDecodedOthersDropped ==
    [][DrainsFrames =>
         LET n == Len(viewer.frame_rx)
             latest == viewer.frame_rx[n]
             last == decoder'.seen[Len(decoder'.seen)]
         IN /\ Len(decoder'.seen) = Len(decoder.seen) + 1
            /\ last.sequence = latest.sequence
            /\ last.ok = decode_internal(latest)
            /\ viewer'.stats.frames_received = viewer.stats.frames_received + n
            /\ IF last.ok
               THEN /\ viewer'.texture = latest.sequence
                    /\ viewer'.stats.frames_displayed = viewer.stats.frames_displayed + 1
                    /\ viewer'.stats.frames_dropped = viewer.stats.frames_dropped + (n - 1)
               ELSE /\ viewer'.texture = viewer.texture
                    /\ viewer'.stats.frames_displayed = viewer.stats.frames_displayed
                    /\ viewer'.stats.frames_dropped = viewer.stats.frames_dropped + n]_vars

\* one tick drained three frames and put the last of them on display
C23_Witness ==
    /\ viewer.stats.frames_received = 3
    /\ Len(decoder.seen) = 1
    /\ decoder.seen[1].ok
    /\ viewer.texture = decoder.seen[1].sequence
    /\ viewer.stats.frames_displayed = 1
    /\ viewer.stats.frames_dropped = 2

\* C24: once recv() on the substream has reported StreamClosed, the
\* stream-to-queue bridge ends and drops its Sender; a session that then sees
\* its queue closed has taken every message the bridge had queued.
C24_StreamClosedClosesQueue ==
    /\ (link.receiver_error.kind = "StreamClosed")
         ~> (link.receiver_pc = "done" /\ ~link.into.tx_open)
    /\ [](link.receiver_pc = "done" => ~link.into.tx_open)
    /\ [](link.closed_seen =>
            /\ link.receiver_pc = "done"
            /\ link.into.queue = <<>>
            /\ link.delivered = link.forwarded)

\* the bridge ended on StreamClosed with a message still queued, and the
\* session drained it before it saw the queue closed
C24_Witness ==
    /\ link.receiver_error.kind = "StreamClosed"
    /\ link.receiver_pc = "done"
    /\ link.closed_seen
    /\ Len(link.delivered) >= 1

\* the Pings and Pongs among what a session put on its control queue
PingsAndPongs == SelectSeq(link.put, LAMBDA m : m.type \in {"Ping", "Pong"})

\* C25: between two peers running this program, what the near session takes
\* from its control queue is, message for message, the Pings and Pongs the
\* far session put on its own: a Ping{ts} arrives as Ping{ts} and a Pong{ts}
\* as Pong{ts}.
C25_PingPongRoundTrip ==
    (link.kind = "control" /\ link.peer = "program")
        => IsPrefix(link.delivered, PingsAndPongs)

\* what the control bridge read off the substream and recognised
Recognised == SelectSeq(link.results, LAMBDA r : r.ok /\ r.value.type = "Heartbeat")

\* C26: on the control substream a message that is no recognised control
\* variant is ignored: nothing is queued for it, and the bridge goes on, so
\* that it ends only when the substream ends or the session has dropped its
\* queue.
C26_UnrecognisedIgnored ==
    link.kind = "control" =>
        /\ Len(link.forwarded) <= Len(Recognised)
        /\ \A i \in 1..Len(link.forwarded) :
             link.forwarded[i] = Ping(Recognised[i].value.timestamp)
        /\ link.receiver_pc \in {"break", "done"} =>
             \/ link.receiver_error.kind \in {"StreamClosed", "ReadError"}
             \/ ~link.into.rx_open

\* C27: once the host's capture worker has counted MAX_FAILURES consecutive
\* capture failures, its loop ends and the session's state becomes
\* Disconnected.
C27_TenFailuresDisconnect ==
    (cap.consecutive_failures >= MAX_FAILURES)
        ~> (wpc["capture"] = "done" /\ sm.current = Disconnected)

\* C28: a send() of a message whose serialization is larger than
\* MAX_MESSAGE_SIZE fails with MessageTooLarge{size, max} and puts nothing on
\* the substream, neither the length prefix nor the data.
C28_OversizeRefusedUnwritten ==
    \A i \in DOMAIN link.sent :
        serialize(link.sent[i].msg).len > MAX_MESSAGE_SIZE =>
            /\ ~link.sent[i].result.ok
            /\ link.sent[i].result.error =
                   MessageTooLarge(serialize(link.sent[i].msg).len, MAX_MESSAGE_SIZE)
            /\ link.sent[i].segments_written = 0

\* a message of MAX_MESSAGE_SIZE + 1 bytes was refused after one of
\* exactly MAX_MESSAGE_SIZE bytes was written
C28_Witness ==
    /\ Len(link.sent) = 2
    /\ link.sent[1].msg.size = MAX_MESSAGE_SIZE
    /\ link.sent[1].result.ok
    /\ link.sent[2].msg.size = MAX_MESSAGE_SIZE + 1
    /\ link.sent[2].result.error.kind = "MessageTooLarge"
    /\ Len(link.stream.segments) = 2

\* the messages send() accepted, and the messages recv() returned
SentOk == [i \in 1..Len(SelectSeq(link.sent, LAMBDA s : s.result.ok)) |->
                SelectSeq(link.sent, LAMBDA s : s.result.ok)[i].msg]

Returned == [i \in 1..Len(SelectSeq(link.results, LAMBDA r : r.ok)) |->
                SelectSeq(link.results, LAMBDA r : r.ok)[i].value]

\* C29: on one substream recv() returns the messages send() accepted, in the
\* order they were sent, equal in content, none skipped and none twice; a
\* recv() fails only because the substream ended, and when it reports
\* StreamClosed every message sent has been returned.
C29_StreamIsFifoAndReliable ==
    /\ IsPrefix(Returned, SentOk)
    /\ \A i \in DOMAIN link.results :
         ~link.results[i].ok =>
             link.results[i].error.kind \in {"StreamClosed", "ReadError"}
    /\ (\E i \in DOMAIN link.results : link.results[i].error.kind = "StreamClosed")
         => Returned = SentOk

\* three different messages, one of them of exactly MAX_MESSAGE_SIZE bytes,
\* were sent and then received, and the next recv() reported StreamClosed
C29_Witness ==
    /\ Len(Returned) = 3
    /\ Returned[1] # Returned[2]
    /\ Returned[2] # Returned[3]
    /\ \E i \in 1..3 : Returned[i].size = MAX_MESSAGE_SIZE
    /\ Len(link.results) = 4
    /\ link.results[4].error.kind = "StreamClosed"

\* a call of start_discovery() while a browse task is already running
StartsAgain ==
    /\ discovery'.starts = discovery.starts + 1
    /\ discovery.browser_handle # 0
    /\ discovery.tasks[discovery.browser_handle].state = "running"

\* C30: start_discovery() called while discovery is running changes nothing:
\* no second browse task, no second event channel, and the channel whose
\* Receiver the earlier call returned stays the one the PeerDiscovery and
\* its task send on.
C30_StartDiscoveryIdempotent ==
    [][StartsAgain =>
         /\ Len(discovery'.tasks) = Len(discovery.tasks)
         /\ Len(discovery'.streams) = Len(discovery.streams)
         /\ discovery'.event_tx = discovery.event_tx
         /\ discovery'.browser_handle = discovery.browser_handle
         /\ discovery'.fed = discovery.fed]_vars

\* C31: a browse result carrying the local device id never enters the peer
\* cache and produces no PeerEvent, so resolve(local_id) finds nothing.
C31_OwnRecordFiltered ==
    /\ LocalId \notin DOMAIN discovery.peers
    /\ \A k \in DOMAIN discovery.streams :
         \A i \in DOMAIN discovery.streams[k].events :
            discovery.streams[k].events[i].device_id # LocalId
    /\ ~resolve(discovery, LocalId).some

\* the handler was given this device's own record and a peer's record: the
\* peer is cached and resolves, the own record left no trace
C31_Witness ==
    /\ LocalId \in discovery.handled
    /\ FirstPeer \in discovery.handled
    /\ resolve(discovery, FirstPeer).some
    /\ \E k \in DOMAIN discovery.streams :
         discovery.streams[k].events = <<PeerEvent_Discovered(FirstPeer)>>

\* C32: right after cleanup_stale_peers() returns, every peer left in the
\* cache was last seen no longer ago than the 120 s timeout.
C32_NoStalePeerAfterCleanup ==
    discovery.swept.done =>
        \A id \in DOMAIN discovery.peers :
            discovery.peers[id].last_seen >= discovery.now - STALE_PEER_TIMEOUT_SECS

\* a sweep that removed a peer 121 s old and kept one exactly 120 s old
C32_Witness ==
    /\ discovery.swept.done
    /\ discovery.swept.removed = {SecondPeer}
    /\ FirstPeer \in DOMAIN discovery.peers
    /\ age(discovery.peers[FirstPeer], discovery.now) = STALE_PEER_TIMEOUT_SECS

\* C33: the address connect() dials for a resolved peer is the peer's
\* primary address: its first IPv4 address, or its first address when it
\* has no IPv4 address.
C33_DialsPrimaryAddress ==
    \A i \in DOMAIN discovery.dialed :
        discovery.dialed[i].peer.some =>
            discovery.dialed[i].remote_addr =
                primary_address(discovery.dialed[i].peer.peer)

\* C34: whatever transition and force_transition calls were made, the
\* recorded history is never longer than max_history.
C34_HistoryBounded == Len(sm.history) <= sm.max_history

\* a machine with max_history 2 whose history is full and has lost its
\* oldest edge: the first edge ever recorded leaves Idle
C34_Witness ==
    /\ mode = "machine"
    /\ sm.max_history = 2
    /\ call.op \in {"transition", "force_transition"}
    /\ Len(sm.history) = 2
    /\ sm.history[1].from # Idle

\* a create_host_session or create_client_session call that has returned
SingleCreateDone(i) ==
    /\ registry.calls[i].op \in {"create_host_session", "create_client_session"}
    /\ registry.calls[i].pc = "done"

\* C35: of the create_host_session / create_client_session calls that use
\* one session id, at most one succeeds; the others fail with
\* SessionAlreadyExists and the session registered first stays.
C35_OneSessionPerId ==
    \A i \in DOMAIN registry.calls, j \in DOMAIN registry.calls :
        (/\ i # j
         /\ SingleCreateDone(i)
         /\ SingleCreateDone(j)
         /\ registry.calls[i].named = registry.calls[j].named
         /\ registry.calls[i].result = Ok)
        =>  /\ registry.calls[j].result = SessionAlreadyExists(registry.calls[j].named[1])
            /\ registry.sessions[registry.calls[i].named[1]].by = i

\* C39: a create_loopback_session call that returned an error has left no
\* session of its own in the manager.
C39_LoopbackBothOrNeither ==
    \A i \in DOMAIN registry.calls :
        (/\ registry.calls[i].op = "create_loopback_session"
         /\ registry.calls[i].pc = "done"
         /\ registry.calls[i].result # Ok)
        => \A session_id \in DOMAIN registry.sessions :
              registry.sessions[session_id].by # i

\* how many characters of a text satisfy a test
Count(text, Test(_)) == Len(SelectSeq(text, Test))

IsSpace(c) == c = " "

\* C36: a valid DeviceId written with to_string or format_with_spaces
\* parses back to the same DeviceId, and format_with_spaces writes exactly
\* two spaces and nine digits.
C36_FormatParseRoundTrip ==
    (ident # NoDeviceId /\ ident.written \in {"to_string", "format_with_spaces"}) =>
        /\ ident.n >= DEVICE_ID_MIN /\ ident.n <= DEVICE_ID_MAX
        /\ ident.parsed # NoCall => ident.parsed = [ok |-> TRUE, id |-> ident.n]
        /\ ident.written = "format_with_spaces" =>
              /\ Count(ident.text, IsSpace) = 2
              /\ Count(ident.text, IsDigit) = 9
              /\ Len(ident.text) = 11

\* the lowest device id written as "100 000 000" and read back
C36_Witness ==
    /\ ident # NoDeviceId
    /\ ident.n = DEVICE_ID_MIN
    /\ ident.written = "format_with_spaces"
    /\ ident.text = <<"1", "0", "0", " ", "0", "0", "0", " ", "0", "0", "0">>
    /\ ident.parsed = [ok |-> TRUE, id |-> DEVICE_ID_MIN]

\* the calls made for a connection id that found its pending entry
Finders(id) ==
    {i \in DOMAIN answers : answers[i].connection_id = id /\ answers[i].found}

\* C37: of all accept_connection and reject_connection calls made for one
\* connection id, exactly one finds the pending entry (none while the entry
\* is still pending or was never made); every other call fails with "Pending
\* connection not found" and sends nothing to the peer.
C37_PendingResolvedOnce ==
    /\ \A id \in 1..MaxPeerInbound :
         Cardinality(Finders(id)) =
            IF Announced(id) /\ id \notin manager.pending_connections THEN 1 ELSE 0
    /\ \A i \in DOMAIN answers :
         ~answers[i].found =>
            /\ answers[i].result = PendingNotFound
            /\ answers[i].sent = NoMessage

\* one pending connection, three calls: the first took the entry and has not
\* sent its reply yet, the two others came meanwhile and found nothing
C37_Witness ==
    /\ Len(answers) = 3
    /\ answers[1].connection_id = 1 /\ answers[1].found /\ answers[1].pc = "send"
    /\ answers[2].connection_id = 1 /\ answers[2].op = "accept_connection"
    /\ answers[2].result = PendingNotFound
    /\ answers[3].connection_id = 1 /\ answers[3].op = "reject_connection"
    /\ answers[3].result = PendingNotFound

\* C38: a text put on the local clipboard by set_content is never reported
\* by the monitor as a local change.
C38_NoEchoOfAppliedText ==
    \A i \in DOMAIN clipboard.reported : clipboard.reported[i].from # "remote"

\* C40: once stop_capture() has been called, the capture thread that
\* start_capture() spawned eventually exits.
C40_StopCaptureEndsThread ==
    capturer.stopped ~> capturer.thread.pc = "exited"

====
